---- MODULE Spec2Model ----
(***************************************************************************)
(* Swap-request engine of the skill swap platform backend                  *)
(* (backend/app/routers/swaps.py) together with the parts of the identity  *)
(* store, the skill catalog and the admin router that its checks read.     *)
(*                                                                         *)
(* The store is the SQLite database of backend/app/database.py.  A handler *)
(* is one action in Spec (it runs from its first query to its commit       *)
(* without interruption); SpecConc splits create_swap_request at the       *)
(* point where it has read the store and has not yet written to it.        *)
(* SpecList adds the database clock and the listing of requests,           *)
(* SpecSkills the users' edits of their offered and wanted skills, and     *)
(* SpecCatalog the creation and moderation of skills by name               *)
(* (backend/app/routers/users.py, backend/app/routers/skills.py).          *)
(***************************************************************************)
EXTENDS Integers, FiniteSets, Sequences, Bags, TLC

\* ------------------------------------------------------------ populations

\* Registered users (rows of the users table).  No handler under src/
\* inserts or deletes a user, so the population is fixed.
Users == {1, 2, 3}

\* User ids a caller may name: the registered users and one id without a row.
UserIdInputs == {1, 2, 3, 4}

\* Users with is_admin set; no handler changes the flag.
Admins == {3}

\* Skill ids of the catalog at start.
SkillIds == {1, 2}

\* (user, skill) pairs of the add and remove calls on offered skills:
\* user 1 teaches skill 1, user 2 teaches skill 2, user 3 teaches nothing.
OfferInputs == {<<1, 1>>, <<2, 2>>}

\* Cap on the id of a stored swap request (the table itself is unbounded).
MaxRequests == 2

\* Request ids a caller may name.
RequestIdInputs == 1..MaxRequests

\* Last instant of the database clock (the clock itself is unbounded).
MaxClock == 1

\* Values of the type_filter query parameter: the three the handler names
\* and one it does not.
TypeFilterInputs == {"sent", "received", "all", "mine"}

\* Cap on the id of a stored skill (the table itself is unbounded).
MaxSkills == 3

\* Skill ids a caller may name.
SkillIdInputs == 1..MaxSkills

\* Python's None (an absent optional value).
None == "None"

\* A field the caller left out of an update payload (exclude_unset).
Unset == "Unset"

\* Status strings a caller may send: SwapRequestUpdate.status is a plain str.
StatusInputs == {"pending", "accepted", "rejected", "completed", "cancelled", "archived"}

\* Concurrent request handlers of SpecConc.
Sessions == {1, 2}

\* ------------------------------------------------------------ skill names

\* A skill name is a Python str, here a sequence of characters over a small
\* alphabet: the characters a caller types are two letters, one of them in
\* both cases, the blank and the LIKE wildcard.
Alphabet == {"a", "A", "b", " ", "%"}

LowerCase == {"a", "b"}

UpperCase == {"A", "B"}

\* Longest name a caller sends (SkillBase.name is an unconstrained str).
MaxNameLen == 2

\* The names a caller may send to create_skill.
NameInputs == UNION {[1..n -> Alphabet] : n \in 0..MaxNameLen}

\* Python's None for an optional str that is a sequence of characters when
\* present (Skill.category).
NoCategory == <<None>>

\* Names of the skills of the catalog at start, as create_skill stores them.
SkillNames == << <<"A">>, <<"B">> >>

\* str.lower() and str.upper() on one character
lower(c) == IF c = "A" THEN "a" ELSE IF c = "B" THEN "b" ELSE c

upper(c) == IF c = "a" THEN "A" ELSE IF c = "b" THEN "B" ELSE c

RECURSIVE strip_left(_)
strip_left(s) == IF s # << >> /\ Head(s) = " " THEN strip_left(Tail(s)) ELSE s

RECURSIVE strip_right(_)
strip_right(s) ==
    IF s # << >> /\ s[Len(s)] = " " THEN strip_right(SubSeq(s, 1, Len(s) - 1)) ELSE s

\* str.strip(): leading and trailing whitespace removed
strip(s) == strip_right(strip_left(s))

\* str.title(): a letter that follows a letter is lowercased, every other
\* letter is uppercased, and the other characters stay.
title(s) ==
    [i \in 1..Len(s) |->
        IF i > 1 /\ s[i - 1] \in LowerCase \cup UpperCase THEN lower(s[i]) ELSE upper(s[i])]

\* SQL LIKE of value against pattern, case-insensitive as ilike makes it:
\* % in the pattern matches any run of characters.
RECURSIVE ilike(_, _)
ilike(value, pattern) ==
    IF pattern = << >> THEN value = << >>
    ELSE IF Head(pattern) = "%"
    THEN \/ ilike(value, Tail(pattern))
         \/ value # << >> /\ ilike(Tail(value), pattern)
    ELSE /\ value # << >>
         /\ lower(Head(value)) = lower(Head(pattern))
         /\ ilike(Tail(value), Tail(pattern))

\* ------------------------------------------------------------ responses

HTTP_404_NOT_FOUND == 404

HTTP_400_BAD_REQUEST == 400

HTTP_403_FORBIDDEN == 403

\* The status of a response to an exception no handler catches.
HTTP_500_INTERNAL_SERVER_ERROR == 500

\* A successful response: FastAPI's default status for a returned value.
Ok == [code |-> 200, detail |-> "ok"]

\* raise HTTPException(status_code=c, detail=d)
HTTPException(c, d) == [code |-> c, detail |-> d]

\* ------------------------------------------------------------ state

VARIABLES
    is_public,   \* User.is_public, per user
    is_active,   \* User.is_active, per user
    skills,      \* ids of the rows of the skills table
    catalog,     \* Skill.name, category and is_approved of each row of the skills table
    offered,     \* User.skills_offered, per user: the bag of rows of user_skills_offered
    wanted,      \* User.skills_wanted, per user: the bag of rows of user_skills_wanted
    requests,    \* rows of swap_requests, keyed by id
    now,         \* the database clock read by func.now()
    last,        \* the call most recently served and its response
    sess         \* SpecConc: each concurrent handler's position and locals

vars == <<is_public, is_active, skills, catalog, offered, wanted, requests, now, last, sess>>

\* No call served yet.
NoCall == [op |-> "none", actor |-> 0, rid |-> 0, requested |-> 0, so |-> 0, sw |-> 0,
           status |-> None, message |-> None, resp |-> Ok,
           name |-> None, category |-> NoCategory, type_filter |-> None, skill_id |-> 0,
     rows |-> << >>]

\* A handler that has not started.
Idle == [pc |-> "idle", actor |-> 0, requested |-> 0, so |-> 0, sw |-> 0,
         rid |-> 0, resp |-> Ok, overlapped |-> FALSE]

Init ==
    /\ is_public = [u \in Users |-> TRUE]
    /\ is_active = [u \in Users |-> TRUE]
    /\ skills = SkillIds
    /\ catalog = [i \in SkillIds |-> [name |-> SkillNames[i], category |-> NoCategory, is_approved |-> TRUE]]
    /\ offered = [u \in Users |-> EmptyBag]
    /\ wanted = [u \in Users |-> EmptyBag]
    /\ requests = << >>
    /\ now = 0
    /\ last = NoCall
    /\ sess = [s \in Sessions |-> Idle]

\* ------------------------------------------------------------ helpers

\* The dependency that resolves the caller: only an existing, active user
\* reaches a handler body.
get_current_active_user(actor) == actor \in Users /\ is_active[actor]

\* The dependency of the admin router: an active user with is_admin set.
get_current_admin_user(actor) == get_current_active_user(actor) /\ actor \in Admins

\* db.query(SwapRequest).filter(SwapRequest.id == request_id).first() found a row
Found(rid) == rid \in DOMAIN requests

\* The id SQLite gives the next inserted row of an INTEGER PRIMARY KEY
\* table: one more than the largest id in the table.
NextId ==
    IF DOMAIN requests = {} THEN 1
    ELSE (CHOOSE m \in DOMAIN requests : \A k \in DOMAIN requests : k <= m) + 1

\* ExistingPending without the status filter: a row of any status counts.
ExistingPending_AnyStatus(actor, requested_id, so, sw) ==
    \E k \in DOMAIN requests :
        /\ requests[k].requester_id = actor
        /\ requests[k].requested_id = requested_id
        /\ requests[k].skill_offered_id = so
        /\ requests[k].skill_wanted_id = sw

\* ExistingPending with the status filter misspelt: it finds no pending row.
ExistingPending_WrongStatus(actor, requested_id, so, sw) ==
    \E k \in DOMAIN requests :
        /\ requests[k].requester_id = actor
        /\ requests[k].requested_id = requested_id
        /\ requests[k].skill_offered_id = so
        /\ requests[k].skill_wanted_id = sw
        /\ requests[k].status = "Pending"

\* The duplicate query of create_swap_request: a stored row with the same
\* requester, requested user and skills whose status is "pending".
ExistingPending(actor, requested_id, so, sw) ==
    \E k \in DOMAIN requests :
        /\ requests[k].requester_id = actor
        /\ requests[k].requested_id = requested_id
        /\ requests[k].skill_offered_id = so
        /\ requests[k].skill_wanted_id = sw
        /\ requests[k].status = "pending"

\* CreateCheck without the self-swap check.
CreateCheck_NoSelfCheck(actor, requested_id, so, sw) ==
    IF ~(requested_id \in Users /\ is_active[requested_id])
    THEN HTTPException(HTTP_404_NOT_FOUND, "Requested user not found or inactive")
    ELSE IF ~(so \in skills /\ sw \in skills)
    THEN HTTPException(HTTP_404_NOT_FOUND, "One or both skills not found")
    ELSE IF ~BagIn(so, offered[actor])
    THEN HTTPException(HTTP_400_BAD_REQUEST, "You don't have this skill in your offered skills")
    ELSE IF ~BagIn(sw, offered[requested_id])
    THEN HTTPException(HTTP_400_BAD_REQUEST, "Requested user doesn't offer this skill")
    ELSE IF ExistingPending(actor, requested_id, so, sw)
    THEN HTTPException(HTTP_400_BAD_REQUEST, "A pending request for this skill swap already exists")
    ELSE Ok

\* CreateCheck without the check that the requested user offers the wanted skill.
CreateCheck_NoWantedCheck(actor, requested_id, so, sw) ==
    IF ~(requested_id \in Users /\ is_active[requested_id])
    THEN HTTPException(HTTP_404_NOT_FOUND, "Requested user not found or inactive")
    ELSE IF requested_id = actor
    THEN HTTPException(HTTP_400_BAD_REQUEST, "Cannot request a swap with yourself")
    ELSE IF ~(so \in skills /\ sw \in skills)
    THEN HTTPException(HTTP_404_NOT_FOUND, "One or both skills not found")
    ELSE IF ~BagIn(so, offered[actor])
    THEN HTTPException(HTTP_400_BAD_REQUEST, "You don't offer the skill you're proposing to teach")
    ELSE IF ExistingPending(actor, requested_id, so, sw)
    THEN HTTPException(HTTP_400_BAD_REQUEST, "A pending request for this skill swap already exists")
    ELSE Ok

\* CreateCheck with the skills looked up before the self-swap check.
CreateCheck_SkillsBeforeSelf(actor, requested_id, so, sw) ==
    IF ~(requested_id \in Users /\ is_active[requested_id])
    THEN HTTPException(HTTP_404_NOT_FOUND, "Requested user not found or inactive")
    ELSE IF ~(so \in skills /\ sw \in skills)
    THEN HTTPException(HTTP_404_NOT_FOUND, "One or both skills not found")
    ELSE IF requested_id = actor
    THEN HTTPException(HTTP_400_BAD_REQUEST, "Cannot request a swap with yourself")
    ELSE IF ~BagIn(so, offered[actor])
    THEN HTTPException(HTTP_400_BAD_REQUEST, "You don't offer the skill you're proposing to teach")
    ELSE IF ~BagIn(sw, offered[requested_id])
    THEN HTTPException(HTTP_400_BAD_REQUEST, "The requested user doesn't offer the skill you want to learn")
    ELSE IF ExistingPending(actor, requested_id, so, sw)
    THEN HTTPException(HTTP_400_BAD_REQUEST, "A pending request for this skill swap already exists")
    ELSE Ok

\* CreateCheck with the two ownership checks in the other order.
CreateCheck_WantedBeforeOffered(actor, requested_id, so, sw) ==
    IF ~(requested_id \in Users /\ is_active[requested_id])
    THEN HTTPException(HTTP_404_NOT_FOUND, "Requested user not found or inactive")
    ELSE IF requested_id = actor
    THEN HTTPException(HTTP_400_BAD_REQUEST, "Cannot request a swap with yourself")
    ELSE IF ~(so \in skills /\ sw \in skills)
    THEN HTTPException(HTTP_404_NOT_FOUND, "One or both skills not found")
    ELSE IF ~BagIn(sw, offered[requested_id])
    THEN HTTPException(HTTP_400_BAD_REQUEST, "The requested user doesn't offer the skill you want to learn")
    ELSE IF ~BagIn(so, offered[actor])
    THEN HTTPException(HTTP_400_BAD_REQUEST, "You don't offer the skill you're proposing to teach")
    ELSE IF ExistingPending(actor, requested_id, so, sw)
    THEN HTTPException(HTTP_400_BAD_REQUEST, "A pending request for this skill swap already exists")
    ELSE Ok

\* The validation sequence of create_swap_request, in the order of the
\* code; the response of the first failing check, or Ok.
CreateCheck(actor, requested_id, so, sw) ==
    IF ~(requested_id \in Users /\ is_active[requested_id])
    THEN HTTPException(HTTP_404_NOT_FOUND, "Requested user not found or inactive")
    ELSE IF requested_id = actor
    THEN HTTPException(HTTP_400_BAD_REQUEST, "Cannot request a swap with yourself")
    ELSE IF ~(so \in skills /\ sw \in skills)
    THEN HTTPException(HTTP_404_NOT_FOUND, "One or both skills not found")
    ELSE IF ~BagIn(so, offered[actor])
    THEN HTTPException(HTTP_400_BAD_REQUEST, "You don't offer the skill you're proposing to teach")
    ELSE IF ~BagIn(sw, offered[requested_id])
    THEN HTTPException(HTTP_400_BAD_REQUEST, "The requested user doesn't offer the skill you want to learn")
    ELSE IF ExistingPending(actor, requested_id, so, sw)
    THEN HTTPException(HTTP_400_BAD_REQUEST, "A pending request for this skill swap already exists")
    ELSE Ok

\* NewRequest without the message of the payload.
NewRequest_NoMessage(actor, requested_id, so, sw, msg) ==
    [requester_id |-> actor, requested_id |-> requested_id,
     skill_offered_id |-> so, skill_wanted_id |-> sw,
     message |-> None, status |-> "pending", created_at |-> now,
     updated_at |-> now]

\* SwapRequest(requester_id=..., ..., status="pending")
NewRequest(actor, requested_id, so, sw, msg) ==
    [requester_id |-> actor, requested_id |-> requested_id,
     skill_offered_id |-> so, skill_wanted_id |-> sw,
     message |-> msg, status |-> "pending", created_at |-> now,
     updated_at |-> now]

\* UpdateCheck with the completed branch refusing a request that is not accepted.
UpdateCheck_CompleteFromAccepted(actor, rid, status) ==
    IF status \in {"accepted", "rejected"}
    THEN IF requests[rid].requested_id # actor
         THEN HTTPException(HTTP_403_FORBIDDEN, "Only the requested user can accept or reject requests")
         ELSE Ok
    ELSE IF status = "cancelled"
    THEN IF requests[rid].requester_id # actor
         THEN HTTPException(HTTP_403_FORBIDDEN, "Only the requester can cancel requests")
         ELSE Ok
    ELSE IF status = "completed"
    THEN IF requests[rid].requester_id # actor /\ requests[rid].requested_id # actor
         THEN HTTPException(HTTP_403_FORBIDDEN, "Not authorized to update this request")
         ELSE IF requests[rid].status # "accepted"
         THEN HTTPException(HTTP_400_BAD_REQUEST, "Only accepted requests can be completed")
         ELSE Ok
    ELSE Ok

\* UpdateCheck with the completed branch open to the requester alone.
UpdateCheck_CompleteByRequester(actor, rid, status) ==
    IF status \in {"accepted", "rejected"}
    THEN IF requests[rid].requested_id # actor
         THEN HTTPException(HTTP_403_FORBIDDEN, "Only the requested user can accept or reject requests")
         ELSE Ok
    ELSE IF status = "cancelled"
    THEN IF requests[rid].requester_id # actor
         THEN HTTPException(HTTP_403_FORBIDDEN, "Only the requester can cancel requests")
         ELSE Ok
    ELSE IF status = "completed"
    THEN IF requests[rid].requester_id # actor
         THEN HTTPException(HTTP_403_FORBIDDEN, "Not authorized to update this request")
         ELSE Ok
    ELSE Ok

\* UpdateCheck with the cancel branch comparing the requested user.
UpdateCheck_CancelByRequested(actor, rid, status) ==
    IF status \in {"accepted", "rejected"}
    THEN IF requests[rid].requested_id # actor
         THEN HTTPException(HTTP_403_FORBIDDEN, "Only the requested user can accept or reject requests")
         ELSE Ok
    ELSE IF status = "cancelled"
    THEN IF requests[rid].requested_id # actor
         THEN HTTPException(HTTP_403_FORBIDDEN, "Only the requester can cancel requests")
         ELSE Ok
    ELSE IF status = "completed"
    THEN IF requests[rid].requester_id # actor /\ requests[rid].requested_id # actor
         THEN HTTPException(HTTP_403_FORBIDDEN, "Not authorized to update this request")
         ELSE Ok
    ELSE Ok

\* The permission checks of update_swap_request, keyed by the status sent.
UpdateCheck(actor, rid, status) ==
    IF status \in {"accepted", "rejected"}
    THEN IF requests[rid].requested_id # actor
         THEN HTTPException(HTTP_403_FORBIDDEN, "Only the requested user can accept or reject requests")
         ELSE Ok
    ELSE IF status = "cancelled"
    THEN IF requests[rid].requester_id # actor
         THEN HTTPException(HTTP_403_FORBIDDEN, "Only the requester can cancel requests")
         ELSE Ok
    ELSE IF status = "completed"
    THEN IF requests[rid].requester_id # actor /\ requests[rid].requested_id # actor
         THEN HTTPException(HTTP_403_FORBIDDEN, "Not authorized to update this request")
         ELSE Ok
    ELSE Ok

\* ApplyUpdate writing the two parties the other way round as well.
ApplyUpdate_SwapsParties(r, status, msg) ==
    [r EXCEPT !.status = status,
              !.message = IF msg = Unset THEN @ ELSE msg,
              !.requester_id = r.requested_id,
              !.requested_id = r.requester_id]

\* ApplyUpdate writing the message of the payload even when it was left out.
ApplyUpdate_MessageAlways(r, status, msg) ==
    [r EXCEPT !.status = status,
              !.message = IF msg = Unset THEN None ELSE msg]

\* The UPDATE that db.commit() sends for a handler that loaded the row as
\* `loaded` and assigned the payload's fields to it, applied to the stored
\* row r.  The session writes the columns whose assigned value differs from
\* the loaded one; onupdate=func.now() puts updated_at into that statement,
\* and when no column differs no statement is sent.
Flush(r, loaded, status, msg) ==
    LET status_set == status # loaded.status
        message_set == msg # Unset /\ msg # loaded.message
    IN  [r EXCEPT !.status = IF status_set THEN status ELSE @,
                  !.message = IF message_set THEN msg ELSE @,
                  !.updated_at = IF status_set \/ message_set THEN now ELSE @]

\* ApplyUpdate refreshing updated_at on every update.
ApplyUpdate_AlwaysStamps(r, status, msg) ==
    [r EXCEPT !.status = status,
              !.message = IF msg = Unset THEN @ ELSE msg,
              !.updated_at = now]

\* for field, value in update_data.dict(exclude_unset=True).items(): setattr(...)
\* and db.commit(), by the handler that has just loaded r.
ApplyUpdate(r, status, msg) == Flush(r, r, status, msg)

\* DeleteCheck without the check that the request is pending.
DeleteCheck_AnyStatus(actor, rid) ==
    IF requests[rid].requester_id # actor
    THEN HTTPException(HTTP_403_FORBIDDEN, "Only the requester can delete their own requests")
    ELSE Ok

\* The checks of delete_swap_request on a row that was found.
DeleteCheck(actor, rid) ==
    IF requests[rid].requester_id # actor
    THEN HTTPException(HTTP_403_FORBIDDEN, "Only the requester can delete their own requests")
    ELSE IF requests[rid].status # "pending"
    THEN HTTPException(HTTP_400_BAD_REQUEST, "Can only delete pending requests")
    ELSE Ok

\* The record of a served call.
Call(op, actor, rid, requested_id, so, sw, status, msg, resp) ==
    [op |-> op, actor |-> actor, rid |-> rid, requested |-> requested_id,
     so |-> so, sw |-> sw, status |-> status, message |-> msg, resp |-> resp,
     name |-> None, category |-> NoCategory, type_filter |-> None, skill_id |-> 0,
     rows |-> << >>]

\* ------------------------------------------------------------ swaps router

\* Matching with the status filter left out of the query.
Matching_NoStatusFilter(actor, status_filter, type_filter) ==
    {k \in DOMAIN requests :
        IF type_filter = "sent" THEN requests[k].requester_id = actor
        ELSE IF type_filter = "received" THEN requests[k].requested_id = actor
        ELSE requests[k].requester_id = actor \/ requests[k].requested_id = actor}

\* The rows the query of get_my_swap_requests selects: the type filter picks
\* the party column, and a status filter that is neither None nor the empty
\* string ("if status_filter:") picks the status.
Matching(actor, status_filter, type_filter) ==
    {k \in DOMAIN requests :
        /\ IF type_filter = "sent" THEN requests[k].requester_id = actor
           ELSE IF type_filter = "received" THEN requests[k].requested_id = actor
           ELSE requests[k].requester_id = actor \/ requests[k].requested_id = actor
        /\ status_filter \notin {None, ""} => requests[k].status = status_filter}

\* order_by(SwapRequest.created_at.desc()) over the rows ids: every listing
\* of them, each once, with creation times that never increase.  Rows
\* created at the same instant come in an order the database chooses.
OrderByCreatedAtDesc(ids) ==
    {rows \in [1..Cardinality(ids) -> ids] :
        /\ \A i, j \in DOMAIN rows : i < j =>
              /\ rows[i] # rows[j]
              /\ requests[rows[i]].created_at >= requests[rows[j]].created_at}

\* GET /api/swaps/
get_my_swap_requests(actor, status_filter, type_filter) ==
    /\ get_current_active_user(actor)
    /\ \E rows \in OrderByCreatedAtDesc(Matching(actor, status_filter, type_filter)) :
          last' = [Call("list", actor, 0, 0, 0, 0, status_filter, None, Ok)
                      EXCEPT !.type_filter = type_filter, !.rows = rows]
    /\ UNCHANGED <<is_public, is_active, skills, catalog, offered, wanted, requests, now, sess>>

\* Time passes on the database clock.
Tick ==
    /\ now < MaxClock
    /\ now' = now + 1
    /\ UNCHANGED <<is_public, is_active, skills, catalog, offered, wanted, requests, last, sess>>

\* POST /api/swaps/
create_swap_request(actor, requested_id, so, sw, msg) ==
    /\ get_current_active_user(actor)
    /\ LET resp == CreateCheck(actor, requested_id, so, sw) IN
       IF resp = Ok
       THEN /\ NextId <= MaxRequests
            /\ requests' = requests @@ (NextId :> NewRequest(actor, requested_id, so, sw, msg))
            /\ last' = Call("create", actor, NextId, requested_id, so, sw, None, msg, Ok)
       ELSE /\ requests' = requests
            /\ last' = Call("create", actor, 0, requested_id, so, sw, None, msg, resp)
    /\ UNCHANGED <<is_public, is_active, skills, catalog, offered, wanted, now, sess>>

\* PUT /api/swaps/{request_id}
update_swap_request(actor, rid, status, msg) ==
    /\ get_current_active_user(actor)
    /\ LET resp == IF ~Found(rid)
                   THEN HTTPException(HTTP_404_NOT_FOUND, "Swap request not found")
                   ELSE UpdateCheck(actor, rid, status) IN
       /\ requests' = IF resp = Ok
                      THEN [requests EXCEPT ![rid] = ApplyUpdate(@, status, msg)]
                      ELSE requests
       /\ last' = Call("update", actor, rid, 0, 0, 0, status, msg, resp)
    /\ UNCHANGED <<is_public, is_active, skills, catalog, offered, wanted, now, sess>>

\* delete_swap_request deleting the requester's row before it looks at the status.
delete_swap_request_BeforeStatusCheck(actor, rid) ==
    /\ get_current_active_user(actor)
    /\ LET resp == IF ~Found(rid)
                   THEN HTTPException(HTTP_404_NOT_FOUND, "Swap request not found")
                   ELSE DeleteCheck(actor, rid) IN
       /\ requests' = IF resp.code \in {200, HTTP_400_BAD_REQUEST}
                      THEN [k \in DOMAIN requests \ {rid} |-> requests[k]]
                      ELSE requests
       /\ last' = Call("delete", actor, rid, 0, 0, 0, None, None, resp)
    /\ UNCHANGED <<is_public, is_active, skills, catalog, offered, wanted, now, sess>>

\* DELETE /api/swaps/{request_id}
delete_swap_request(actor, rid) ==
    /\ get_current_active_user(actor)
    /\ LET resp == IF ~Found(rid)
                   THEN HTTPException(HTTP_404_NOT_FOUND, "Swap request not found")
                   ELSE DeleteCheck(actor, rid) IN
       /\ requests' = IF resp = Ok
                      THEN [k \in DOMAIN requests \ {rid} |-> requests[k]]
                      ELSE requests
       /\ last' = Call("delete", actor, rid, 0, 0, 0, None, None, resp)
    /\ UNCHANGED <<is_public, is_active, skills, catalog, offered, wanted, now, sess>>

\* ViewCheck letting only the requester read the request.
ViewCheck_RequesterOnly(actor, rid) ==
    IF requests[rid].requester_id # actor
    THEN HTTPException(HTTP_403_FORBIDDEN, "Not authorized to view this swap request")
    ELSE Ok

\* The permission check of get_swap_request.
ViewCheck(actor, rid) ==
    IF requests[rid].requester_id # actor /\ requests[rid].requested_id # actor
    THEN HTTPException(HTTP_403_FORBIDDEN, "Not authorized to view this swap request")
    ELSE Ok

\* GET /api/swaps/{request_id}
get_swap_request(actor, rid) ==
    /\ get_current_active_user(actor)
    /\ LET resp == IF ~Found(rid)
                   THEN HTTPException(HTTP_404_NOT_FOUND, "Swap request not found")
                   ELSE ViewCheck(actor, rid) IN
       last' = [Call("get", actor, rid, 0, 0, 0, None, None, resp)
                   EXCEPT !.rows = IF resp = Ok THEN <<rid>> ELSE << >>]
    /\ UNCHANGED <<is_public, is_active, skills, catalog, offered, wanted, requests, now, sess>>

\* ------------------------------------------------------------ users router

\* AppendIfAbsent without the membership test.
AppendIfAbsent_Always(bag, skill_id) == bag (+) SetToBag({skill_id})

\* if skill not in current_user.skills_offered: current_user.skills_offered.append(skill)
AppendIfAbsent(bag, skill_id) ==
    IF BagIn(skill_id, bag) THEN bag ELSE bag (+) SetToBag({skill_id})

\* if skill in current_user.skills_offered: current_user.skills_offered.remove(skill)
\* (list.remove takes out one occurrence)
RemoveIfPresent(bag, skill_id) ==
    IF BagIn(skill_id, bag) THEN bag (-) SetToBag({skill_id}) ELSE bag

\* SkillNotFound raised as a bad request.
SkillNotFound_BadRequest == HTTPException(HTTP_400_BAD_REQUEST, "Skill not found")

SkillNotFound == HTTPException(HTTP_404_NOT_FOUND, "Skill not found")

\* PUT /api/users/me with is_public in the payload.
update_current_user(actor, public) ==
    /\ get_current_active_user(actor)
    /\ is_public' = [is_public EXCEPT ![actor] = public]
    /\ last' = Call("update_me", actor, 0, 0, 0, 0, None, None, Ok)
    /\ UNCHANGED <<is_active, skills, catalog, offered, wanted, requests, now, sess>>

\* The search filter that asks for no skill.
NoSkillFilter == << >>

\* Skill.name.ilike(f"%{skill}%")
Contains(name, skill) == ilike(name, <<"%">> \o skill \o <<"%">>)

\* The users search_users returns: public, active, not the caller, and,
\* when a skill is asked for, offering a skill whose name contains it.
SearchResult(actor, skill) ==
    {u \in Users :
        /\ is_public[u]
        /\ is_active[u]
        /\ u # actor
        /\ skill # NoSkillFilter =>
              \E k \in DOMAIN offered[u] : k \in skills /\ Contains(catalog[k].name, skill)}

\* The orders in which the rows of a bag can be listed.
Listings(bag) ==
    {q \in [1..BagCardinality(bag) -> DOMAIN bag] :
        \A k \in DOMAIN bag : Cardinality({i \in DOMAIN q : q[i] = k}) = bag[k]}

\* GET /api/users/search
search_users(actor, skill) ==
    /\ get_current_active_user(actor)
    /\ \E rows \in Listings(SetToBag(SearchResult(actor, skill))) :
          last' = [Call("search", actor, 0, 0, 0, 0, None, None, Ok)
                      EXCEPT !.name = skill, !.rows = rows]
    /\ UNCHANGED <<is_public, is_active, skills, catalog, offered, wanted, requests, now, sess>>

\* The checks of the three reads of a user: the user is stored, and is
\* public or the caller.
ProfileCheck(actor, user_id) ==
    IF user_id \notin Users
    THEN HTTPException(HTTP_404_NOT_FOUND, "User not found")
    ELSE IF ~is_public[user_id] /\ user_id # actor
    THEN HTTPException(HTTP_403_FORBIDDEN, "This profile is private")
    ELSE Ok

\* GET /api/users/{user_id}
get_user(actor, user_id) ==
    /\ get_current_active_user(actor)
    /\ last' = Call("get_user", actor, 0, user_id, 0, 0, None, None, ProfileCheck(actor, user_id))
    /\ UNCHANGED <<is_public, is_active, skills, catalog, offered, wanted, requests, now, sess>>

\* GET /api/users/{user_id}/skills/offered
get_user_skills_offered(actor, user_id) ==
    /\ get_current_active_user(actor)
    /\ LET resp == ProfileCheck(actor, user_id) IN
       \E rows \in IF resp = Ok THEN Listings(offered[user_id]) ELSE {<< >>} :
          last' = [Call("get_offered", actor, 0, user_id, 0, 0, None, None, resp)
                      EXCEPT !.rows = rows]
    /\ UNCHANGED <<is_public, is_active, skills, catalog, offered, wanted, requests, now, sess>>

\* GET /api/users/{user_id}/skills/wanted
get_user_skills_wanted(actor, user_id) ==
    /\ get_current_active_user(actor)
    /\ LET resp == ProfileCheck(actor, user_id) IN
       \E rows \in IF resp = Ok THEN Listings(wanted[user_id]) ELSE {<< >>} :
          last' = [Call("get_wanted", actor, 0, user_id, 0, 0, None, None, resp)
                      EXCEPT !.rows = rows]
    /\ UNCHANGED <<is_public, is_active, skills, catalog, offered, wanted, requests, now, sess>>

\* POST /api/users/me/skills/offered/{skill_id}
add_skill_offered(actor, skill_id) ==
    /\ get_current_active_user(actor)
    /\ IF skill_id \notin skills
       THEN /\ offered' = offered
            /\ last' = Call("add_offered", actor, 0, 0, skill_id, 0, None, None, SkillNotFound)
       ELSE /\ offered' = [offered EXCEPT ![actor] = AppendIfAbsent(@, skill_id)]
            /\ last' = Call("add_offered", actor, 0, 0, skill_id, 0, None, None, Ok)
    /\ UNCHANGED <<is_public, is_active, skills, catalog, wanted, requests, now, sess>>

\* DELETE /api/users/me/skills/offered/{skill_id}
remove_skill_offered(actor, skill_id) ==
    /\ get_current_active_user(actor)
    /\ IF skill_id \notin skills
       THEN /\ offered' = offered
            /\ last' = Call("remove_offered", actor, 0, 0, skill_id, 0, None, None, SkillNotFound)
       ELSE /\ offered' = [offered EXCEPT ![actor] = RemoveIfPresent(@, skill_id)]
            /\ last' = Call("remove_offered", actor, 0, 0, skill_id, 0, None, None, Ok)
    /\ UNCHANGED <<is_public, is_active, skills, catalog, wanted, requests, now, sess>>

\* POST /api/users/me/skills/wanted/{skill_id}
add_skill_wanted(actor, skill_id) ==
    /\ get_current_active_user(actor)
    /\ IF skill_id \notin skills
       THEN /\ wanted' = wanted
            /\ last' = Call("add_wanted", actor, 0, 0, 0, skill_id, None, None, SkillNotFound)
       ELSE /\ wanted' = [wanted EXCEPT ![actor] = AppendIfAbsent(@, skill_id)]
            /\ last' = Call("add_wanted", actor, 0, 0, 0, skill_id, None, None, Ok)
    /\ UNCHANGED <<is_public, is_active, skills, catalog, offered, requests, now, sess>>

\* DELETE /api/users/me/skills/wanted/{skill_id}
remove_skill_wanted(actor, skill_id) ==
    /\ get_current_active_user(actor)
    /\ IF skill_id \notin skills
       THEN /\ wanted' = wanted
            /\ last' = Call("remove_wanted", actor, 0, 0, 0, skill_id, None, None, SkillNotFound)
       ELSE /\ wanted' = [wanted EXCEPT ![actor] = RemoveIfPresent(@, skill_id)]
            /\ last' = Call("remove_wanted", actor, 0, 0, 0, skill_id, None, None, Ok)
    /\ UNCHANGED <<is_public, is_active, skills, catalog, offered, requests, now, sess>>

\* ------------------------------------------------------------ admin router

\* ban_user without the refusal to ban an admin.
ban_user_AdminsToo(admin, user_id) ==
    /\ get_current_admin_user(admin)
    /\ IF user_id \notin Users
       THEN /\ is_active' = is_active
            /\ last' = Call("ban", admin, 0, user_id, 0, 0, None, None,
                            HTTPException(HTTP_404_NOT_FOUND, "User not found"))
       ELSE /\ is_active' = [is_active EXCEPT ![user_id] = FALSE]
            /\ last' = Call("ban", admin, 0, user_id, 0, 0, None, None, Ok)
    /\ UNCHANGED <<is_public, skills, catalog, offered, wanted, requests, now, sess>>

\* PUT /api/admin/users/{user_id}/ban
ban_user(admin, user_id) ==
    /\ get_current_admin_user(admin)
    /\ IF user_id \notin Users
       THEN /\ is_active' = is_active
            /\ last' = Call("ban", admin, 0, user_id, 0, 0, None, None,
                            HTTPException(HTTP_404_NOT_FOUND, "User not found"))
       ELSE IF user_id \in Admins
       THEN /\ is_active' = is_active
            /\ last' = Call("ban", admin, 0, user_id, 0, 0, None, None,
                            HTTPException(HTTP_400_BAD_REQUEST, "Cannot ban an admin user"))
       ELSE /\ is_active' = [is_active EXCEPT ![user_id] = FALSE]
            /\ last' = Call("ban", admin, 0, user_id, 0, 0, None, None, Ok)
    /\ UNCHANGED <<is_public, skills, catalog, offered, wanted, requests, now, sess>>

\* PUT /api/admin/users/{user_id}/unban
unban_user(admin, user_id) ==
    /\ get_current_admin_user(admin)
    /\ IF user_id \notin Users
       THEN /\ is_active' = is_active
            /\ last' = Call("unban", admin, 0, user_id, 0, 0, None, None,
                            HTTPException(HTTP_404_NOT_FOUND, "User not found"))
       ELSE /\ is_active' = [is_active EXCEPT ![user_id] = TRUE]
            /\ last' = Call("unban", admin, 0, user_id, 0, 0, None, None, Ok)
    /\ UNCHANGED <<is_public, skills, catalog, offered, wanted, requests, now, sess>>

\* ------------------------------------------------------------ skills router

\* The id SQLite gives the next inserted row of the skills table.
NextSkillId ==
    IF skills = {} THEN 1
    ELSE (CHOOSE m \in skills : \A k \in skills : k <= m) + 1

\* ExistingSkills comparing the trimmed name.
ExistingSkills_Trimmed(name) == {i \in skills : ilike(catalog[i].name, strip(name))}

\* db.query(Skill).filter(Skill.name.ilike(skill.name)): the rows whose name
\* matches the name as sent, which is a LIKE pattern.
ExistingSkills(name) == {i \in skills : ilike(catalog[i].name, name)}

\* The name create_skill stores.
StoredName(name) == title(strip(name))

\* skill.category.strip().title() if skill.category else None: an absent
\* or empty category is stored as None.
StoredCategory(category) ==
    IF category \in {NoCategory, << >>} THEN NoCategory ELSE title(strip(category))

\* NewSkill storing the name as it was sent, trimmed.
NewSkill_NoTitle(name, category) ==
    [name |-> strip(name), category |-> StoredCategory(category), is_approved |-> TRUE]

\* NewSkill waiting for the approval of an admin.
NewSkill_Unapproved(name, category) ==
    [name |-> StoredName(name), category |-> StoredCategory(category), is_approved |-> FALSE]

\* Skill(name=..., category=..., description=..., is_approved=True)
NewSkill(name, category) ==
    [name |-> StoredName(name), category |-> StoredCategory(category), is_approved |-> TRUE]

\* A table whose name column carries no unique constraint.
NameTaken_NoConstraint(row) == FALSE

\* The unique constraint of Skill.name refuses the row: a stored row has
\* the very same name.
NameTaken(row) == \E i \in skills : catalog[i].name = row.name

\* The response to an exception no handler catches.
InternalServerError == HTTPException(HTTP_500_INTERNAL_SERVER_ERROR, "Internal Server Error")

\* ExistingSkillResponse returning the row whether it is approved or not.
ExistingSkillResponse_AlwaysOk(existing_skill) == Ok

\* The response of create_skill for the row its lookup found.
ExistingSkillResponse(existing_skill) ==
    IF catalog[existing_skill].is_approved
    THEN Ok
    ELSE HTTPException(HTTP_400_BAD_REQUEST, "Skill exists but is pending approval")

\* POST /api/skills/.  first() takes one of the matching rows, whichever
\* the database finds first.  The insert of a name that is already stored
\* breaks the unique constraint of Skill.name; no handler catches the
\* IntegrityError of the commit, and nothing is stored.
create_skill(actor, name, category) ==
    /\ get_current_active_user(actor)
    /\ IF ExistingSkills(name) # {}
       THEN /\ \E existing_skill \in ExistingSkills(name) :
                 last' = [Call("create_skill", actor, 0, 0, 0, 0, None, None,
                               ExistingSkillResponse(existing_skill))
                             EXCEPT !.name = name, !.category = category,
                                    !.skill_id = IF catalog[existing_skill].is_approved
                                                 THEN existing_skill ELSE 0]
            /\ UNCHANGED <<skills, catalog>>
       ELSE IF NameTaken(NewSkill(name, category))
       THEN /\ last' = [Call("create_skill", actor, 0, 0, 0, 0, None, None, InternalServerError)
                           EXCEPT !.name = name, !.category = category]
            /\ UNCHANGED <<skills, catalog>>
       ELSE /\ NextSkillId <= MaxSkills
            /\ skills' = skills \cup {NextSkillId}
            /\ catalog' = catalog @@ (NextSkillId :> NewSkill(name, category))
            /\ last' = [Call("create_skill", actor, 0, 0, 0, 0, None, None, Ok)
                           EXCEPT !.name = name, !.category = category,
                                  !.skill_id = NextSkillId]
    /\ UNCHANGED <<is_public, is_active, offered, wanted, requests, now, sess>>

\* PUT /api/skills/{skill_id}/approve
approve_skill(admin, skill_id) ==
    /\ get_current_admin_user(admin)
    /\ IF skill_id \notin skills
       THEN /\ catalog' = catalog
            /\ last' = [Call("approve_skill", admin, 0, 0, 0, 0, None, None, SkillNotFound)
                           EXCEPT !.skill_id = skill_id]
       ELSE /\ catalog' = [catalog EXCEPT ![skill_id].is_approved = TRUE]
            /\ last' = [Call("approve_skill", admin, 0, 0, 0, 0, None, None, Ok)
                           EXCEPT !.skill_id = skill_id]
    /\ UNCHANGED <<is_public, is_active, skills, offered, wanted, requests, now, sess>>

\* PUT /api/skills/{skill_id}/reject
reject_skill(admin, skill_id) ==
    /\ get_current_admin_user(admin)
    /\ IF skill_id \notin skills
       THEN /\ catalog' = catalog
            /\ last' = [Call("reject_skill", admin, 0, 0, 0, 0, None, None, SkillNotFound)
                           EXCEPT !.skill_id = skill_id]
       ELSE /\ catalog' = [catalog EXCEPT ![skill_id].is_approved = FALSE]
            /\ last' = [Call("reject_skill", admin, 0, 0, 0, 0, None, None, Ok)
                           EXCEPT !.skill_id = skill_id]
    /\ UNCHANGED <<is_public, is_active, skills, offered, wanted, requests, now, sess>>

\* The association rows of one skill taken out of a user's bag.
Without(bag, skill_id) == [i \in DOMAIN bag \ {skill_id} |-> bag[i]]

\* delete_skill taking the swap requests that name the skill with it.
delete_skill_Cascade(admin, skill_id) ==
    /\ get_current_admin_user(admin)
    /\ IF skill_id \notin skills
       THEN /\ UNCHANGED <<skills, catalog, offered, wanted, requests>>
            /\ last' = Call("delete_skill", admin, 0, 0, skill_id, 0, None, None, SkillNotFound)
       ELSE /\ skills' = skills \ {skill_id}
            /\ catalog' = [i \in skills \ {skill_id} |-> catalog[i]]
            /\ offered' = [u \in Users |-> Without(offered[u], skill_id)]
            /\ wanted' = [u \in Users |-> Without(wanted[u], skill_id)]
            /\ requests' = [k \in {k \in DOMAIN requests :
                                     /\ requests[k].skill_offered_id # skill_id
                                     /\ requests[k].skill_wanted_id # skill_id}
                              |-> requests[k]]
            /\ last' = Call("delete_skill", admin, 0, 0, skill_id, 0, None, None, Ok)
    /\ UNCHANGED <<is_public, is_active, now, sess>>

\* DELETE /api/skills/{skill_id}: the row goes, and with it its rows of the
\* association table; swap requests that name the skill stay.
delete_skill(admin, skill_id) ==
    /\ get_current_admin_user(admin)
    /\ IF skill_id \notin skills
       THEN /\ UNCHANGED <<skills, catalog, offered, wanted>>
            /\ last' = Call("delete_skill", admin, 0, 0, skill_id, 0, None, None, SkillNotFound)
       ELSE /\ skills' = skills \ {skill_id}
            /\ catalog' = [i \in skills \ {skill_id} |-> catalog[i]]
            /\ offered' = [u \in Users |-> Without(offered[u], skill_id)]
            /\ wanted' = [u \in Users |-> Without(wanted[u], skill_id)]
            /\ last' = Call("delete_skill", admin, 0, 0, skill_id, 0, None, None, Ok)
    /\ UNCHANGED <<is_public, is_active, requests, now, sess>>

\* ------------------------------------------------------------ concurrent create

\* Some other handler has read the store for its create and not yet committed.
InFlight(s) == {t \in Sessions \ {s} : sess[t].pc = "checked"}

\* create_swap_request up to the duplicate query: every read of the handler.
\* Nothing is written, and no lock is held when the reads are done.
begin_create(s, actor, requested_id, so, sw) ==
    /\ sess[s].pc = "idle"
    /\ get_current_active_user(actor)
    /\ LET resp == CreateCheck(actor, requested_id, so, sw) IN
       sess' = [t \in Sessions |->
                  IF t = s
                  THEN [pc |-> IF resp = Ok THEN "checked" ELSE "done",
                        actor |-> actor, requested |-> requested_id, so |-> so, sw |-> sw,
                        rid |-> 0, resp |-> resp,
                        overlapped |-> resp = Ok /\ InFlight(s) # {}]
                  ELSE IF resp = Ok /\ t \in InFlight(s)
                  THEN [sess[t] EXCEPT !.overlapped = TRUE]
                  ELSE sess[t]]
    /\ UNCHANGED <<is_public, is_active, skills, catalog, offered, wanted, requests, now, last>>

\* db.add(db_request); db.commit(): the insert of a handler whose reads
\* found nothing wrong.  The table has no uniqueness constraint on the
\* tuple, so the insert cannot fail.
commit_create(s) ==
    /\ sess[s].pc = "checked"
    /\ NextId <= MaxRequests
    /\ requests' = requests @@
          (NextId :> NewRequest(sess[s].actor, sess[s].requested, sess[s].so, sess[s].sw, None))
    /\ sess' = [sess EXCEPT ![s].pc = "done", ![s].rid = NextId]
    /\ UNCHANGED <<is_public, is_active, skills, catalog, offered, wanted, now, last>>

\* ------------------------------------------------------------ concurrent skill create

\* create_skill up to its lookup.  A handler whose lookup found a row
\* answers at once; one whose lookup found none goes on to the insert.
begin_create_skill(s, actor, name, category) ==
    /\ sess[s].pc = "idle"
    /\ get_current_active_user(actor)
    /\ IF ExistingSkills(name) # {}
       THEN \E existing_skill \in ExistingSkills(name) :
               sess' = [sess EXCEPT ![s] =
                           [pc |-> "done", op |-> "create_skill", actor |-> actor,
                            name |-> name, category |-> category,
                            resp |-> ExistingSkillResponse(existing_skill),
                            skill_id |-> IF catalog[existing_skill].is_approved
                                         THEN existing_skill ELSE 0]]
       ELSE sess' = [sess EXCEPT ![s] =
                        [pc |-> "skill_looked_up", op |-> "create_skill", actor |-> actor,
                         name |-> name, category |-> category, resp |-> Ok, skill_id |-> 0]]
    /\ UNCHANGED <<is_public, is_active, skills, catalog, offered, wanted, requests, now, last>>

\* db.add(db_skill); db.commit(): the insert, which the unique constraint
\* of Skill.name checks against the rows stored by then.
commit_create_skill(s) ==
    /\ sess[s].pc = "skill_looked_up"
    /\ IF NameTaken(NewSkill(sess[s].name, sess[s].category))
       THEN /\ sess' = [sess EXCEPT ![s].pc = "done", ![s].resp = InternalServerError]
            /\ UNCHANGED <<skills, catalog>>
       ELSE /\ NextSkillId <= MaxSkills
            /\ skills' = skills \cup {NextSkillId}
            /\ catalog' = catalog @@ (NextSkillId :> NewSkill(sess[s].name, sess[s].category))
            /\ sess' = [sess EXCEPT ![s].pc = "done", ![s].skill_id = NextSkillId]
    /\ UNCHANGED <<is_public, is_active, offered, wanted, requests, now, last>>

\* ------------------------------------------------------------ concurrent update and delete

\* Other handlers that have loaded request rid for an update or a delete
\* and not yet committed.
Loaded(s, rid) ==
    {t \in Sessions \ {s} : sess[t].pc \in {"update_loaded", "delete_loaded"} /\ sess[t].rid = rid}

\* update_swap_request up to the end of its permission checks: the row is
\* loaded into the handler's session and checked; nothing is written.
begin_update(s, actor, rid, status, msg) ==
    /\ sess[s].pc = "idle"
    /\ get_current_active_user(actor)
    /\ LET resp == IF ~Found(rid)
                   THEN HTTPException(HTTP_404_NOT_FOUND, "Swap request not found")
                   ELSE UpdateCheck(actor, rid, status) IN
       sess' = [t \in Sessions |->
                  IF t = s
                  THEN [pc |-> IF resp = Ok THEN "update_loaded" ELSE "done",
                        op |-> "update", actor |-> actor, rid |-> rid,
                        status |-> status, message |-> msg,
                        loaded |-> IF Found(rid) THEN requests[rid] ELSE None,
                        resp |-> resp,
                        concurrent |-> IF resp = Ok THEN Loaded(s, rid) ELSE {}]
                  ELSE IF resp = Ok /\ t \in Loaded(s, rid)
                  THEN [sess[t] EXCEPT !.concurrent = @ \cup {s}]
                  ELSE sess[t]]
    /\ UNCHANGED <<is_public, is_active, skills, catalog, offered, wanted, requests, now, last>>

\* setattr on the loaded row, db.commit(), db.refresh(): the UPDATE names
\* the row by its id and carries the columns the handler changed.  When the
\* row is gone the UPDATE matches no row (StaleDataError), or the refresh
\* finds none, and no handler catches the exception.
commit_update(s) ==
    /\ sess[s].pc = "update_loaded"
    /\ IF sess[s].rid \in DOMAIN requests
       THEN /\ requests' = [requests EXCEPT ![sess[s].rid] =
                               Flush(@, sess[s].loaded, sess[s].status, sess[s].message)]
            /\ sess' = [sess EXCEPT ![s].pc = "done"]
       ELSE /\ requests' = requests
            /\ sess' = [sess EXCEPT ![s].pc = "done", ![s].resp = InternalServerError]
    /\ UNCHANGED <<is_public, is_active, skills, catalog, offered, wanted, now, last>>

\* delete_swap_request up to the end of its checks.
begin_delete(s, actor, rid) ==
    /\ sess[s].pc = "idle"
    /\ get_current_active_user(actor)
    /\ LET resp == IF ~Found(rid)
                   THEN HTTPException(HTTP_404_NOT_FOUND, "Swap request not found")
                   ELSE DeleteCheck(actor, rid) IN
       sess' = [t \in Sessions |->
                  IF t = s
                  THEN [pc |-> IF resp = Ok THEN "delete_loaded" ELSE "done",
                        op |-> "delete", actor |-> actor, rid |-> rid,
                        status |-> None, message |-> None,
                        loaded |-> IF Found(rid) THEN requests[rid] ELSE None,
                        resp |-> resp,
                        concurrent |-> IF resp = Ok THEN Loaded(s, rid) ELSE {}]
                  ELSE IF resp = Ok /\ t \in Loaded(s, rid)
                  THEN [sess[t] EXCEPT !.concurrent = @ \cup {s}]
                  ELSE sess[t]]
    /\ UNCHANGED <<is_public, is_active, skills, catalog, offered, wanted, requests, now, last>>

\* db.delete(swap_request); db.commit(): the DELETE names the row by its id,
\* whatever its status is by then; a DELETE that matches no row only warns.
commit_delete(s) ==
    /\ sess[s].pc = "delete_loaded"
    /\ requests' = [k \in DOMAIN requests \ {sess[s].rid} |-> requests[k]]
    /\ sess' = [sess EXCEPT ![s].pc = "done"]
    /\ UNCHANGED <<is_public, is_active, skills, catalog, offered, wanted, now, last>>

\* ------------------------------------------------------------ concurrent add of an offered skill

\* Other handlers that have found the skill missing from the offered skills
\* of the user and not yet committed their append.
Appending(s, actor, skill_id) ==
    {t \in Sessions \ {s} : /\ sess[t].pc = "membership_checked"
                            /\ sess[t].actor = actor
                            /\ sess[t].skill_id = skill_id}

\* add_skill_offered up to its membership test on the collection the
\* handler loaded.
begin_add_skill_offered(s, actor, skill_id) ==
    /\ sess[s].pc = "idle"
    /\ get_current_active_user(actor)
    /\ LET appends == skill_id \in skills /\ ~BagIn(skill_id, offered[actor]) IN
       sess' = [t \in Sessions |->
                  IF t = s
                  THEN [pc |-> IF appends THEN "membership_checked" ELSE "done",
                        op |-> "add_offered", actor |-> actor, skill_id |-> skill_id,
                        resp |-> IF skill_id \in skills THEN Ok ELSE SkillNotFound,
                        concurrent |-> IF appends THEN Appending(s, actor, skill_id) ELSE {}]
                  ELSE IF appends /\ t \in Appending(s, actor, skill_id)
                  THEN [sess[t] EXCEPT !.concurrent = @ \cup {s}]
                  ELSE sess[t]]
    /\ UNCHANGED <<is_public, is_active, skills, catalog, offered, wanted, requests, now, last>>

\* current_user.skills_offered.append(skill); db.commit(): the INSERT of
\* one row into user_skills_offered, a table without a key.
commit_add_skill_offered(s) ==
    /\ sess[s].pc = "membership_checked"
    /\ offered' = [offered EXCEPT ![sess[s].actor] = @ (+) SetToBag({sess[s].skill_id})]
    /\ sess' = [sess EXCEPT ![s].pc = "done"]
    /\ UNCHANGED <<is_public, is_active, skills, catalog, wanted, requests, now, last>>

\* ------------------------------------------------------------ specifications

\* The store once users 1 and 2 have each added the skill they teach.
InitOffering ==
    /\ is_public = [u \in Users |-> TRUE]
    /\ is_active = [u \in Users |-> TRUE]
    /\ skills = SkillIds
    /\ catalog = [i \in SkillIds |-> [name |-> SkillNames[i], category |-> NoCategory, is_approved |-> TRUE]]
    /\ offered = [u \in Users |-> SetToBag({p[2] : p \in {q \in OfferInputs : q[1] = u}})]
    /\ wanted = [u \in Users |-> EmptyBag]
    /\ requests = << >>
    /\ now = 0
    /\ last = NoCall
    /\ sess = [s \in Sessions |-> Idle]

CreateAction(requestedIds, offeredIds, wantedIds, msgs) ==
    \E actor \in Users, requested_id \in requestedIds,
       so \in offeredIds, sw \in wantedIds, msg \in msgs :
        create_swap_request(actor, requested_id, so, sw, msg)

UpdateAction(statuses, msgs) ==
    \E actor \in Users, rid \in RequestIdInputs, status \in statuses, msg \in msgs :
        update_swap_request(actor, rid, status, msg)

DeleteAction ==
    \E actor \in Users, rid \in RequestIdInputs : delete_swap_request(actor, rid)

AddSkillAction ==
    \E p \in OfferInputs : add_skill_offered(p[1], p[2])

RemoveSkillAction ==
    \E p \in OfferInputs : remove_skill_offered(p[1], p[2])

BanAction ==
    \E admin \in Admins, user_id \in Users : ban_user(admin, user_id)

UnbanAction ==
    \E admin \in Admins, user_id \in Users : unban_user(admin, user_id)

DeleteSkillAction ==
    \E admin \in Admins, skill_id \in SkillIds : delete_skill(admin, skill_id)

CreateSkillAction(actors, names, categories) ==
    \E actor \in actors, name \in names, category \in categories :
        create_skill(actor, name, category)

ApproveSkillAction ==
    \E admin \in Admins, skill_id \in SkillIdInputs : approve_skill(admin, skill_id)

RejectSkillAction ==
    \E admin \in Admins, skill_id \in SkillIdInputs : reject_skill(admin, skill_id)

DeleteAnySkillAction ==
    \E admin \in Admins, skill_id \in SkillIdInputs : delete_skill(admin, skill_id)

BeginCreateAction ==
    \E s \in Sessions, actor \in Users, requested_id \in Users, so \in {1}, sw \in {2} :
        begin_create(s, actor, requested_id, so, sw)

CommitCreateAction ==
    \E s \in Sessions : commit_create(s)

ListAction(statusFilters) ==
    \E actor \in Users, status_filter \in statusFilters, type_filter \in TypeFilterInputs :
        get_my_swap_requests(actor, status_filter, type_filter)

BeginCreateSkillAction(names) ==
    \E s \in Sessions, name \in names : begin_create_skill(s, 1, name, NoCategory)

CommitCreateSkillAction ==
    \E s \in Sessions : commit_create_skill(s)

BeginUpdateAction(statuses) ==
    \E s \in Sessions, actor \in Users, rid \in RequestIdInputs, status \in statuses :
        begin_update(s, actor, rid, status, Unset)

CommitUpdateAction ==
    \E s \in Sessions : commit_update(s)

BeginDeleteAction ==
    \E s \in Sessions, actor \in Users, rid \in RequestIdInputs : begin_delete(s, actor, rid)

CommitDeleteAction ==
    \E s \in Sessions : commit_delete(s)

BeginAddOfferedAction ==
    \E s \in Sessions, actor \in {1, 2}, skill_id \in SkillIdInputs :
        begin_add_skill_offered(s, actor, skill_id)

CommitAddOfferedAction ==
    \E s \in Sessions : commit_add_skill_offered(s)

GetAction ==
    \E actor \in Users, rid \in RequestIdInputs : get_swap_request(actor, rid)

UpdateMeAction ==
    \E actor \in {1, 2}, public \in BOOLEAN : update_current_user(actor, public)

SearchAction ==
    \E actor \in Users, skill \in {NoSkillFilter, <<"a">>} : search_users(actor, skill)

GetUserAction ==
    \E actor \in Users, user_id \in UserIdInputs : get_user(actor, user_id)

GetOfferedAction ==
    \E actor \in Users, user_id \in UserIdInputs : get_user_skills_offered(actor, user_id)

GetWantedAction ==
    \E actor \in Users, user_id \in UserIdInputs : get_user_skills_wanted(actor, user_id)

\* The life of swap requests between users whose offered skills are settled:
\* creation of skill 1 for skill 2, every update, every delete.
Next ==
    \/ CreateAction(Users, {1}, {2}, {None})
    \/ UpdateAction(StatusInputs, {Unset, "hi"})
    \/ DeleteAction

Spec == InitOffering /\ [][Next]_vars

\* Creation against a changing identity store and skill catalog.
NextCreate ==
    \/ AddSkillAction
    \/ RemoveSkillAction
    \/ BanAction
    \/ UnbanAction
    \/ DeleteSkillAction
    \/ CreateAction(UserIdInputs, SkillIds, SkillIds, {None})
    \/ UpdateAction({"accepted"}, {Unset})
    \/ DeleteAction

SpecCreate == Init /\ [][NextCreate]_vars

\* Creations served by handlers that run at the same time.
NextConc ==
    \/ BeginCreateAction
    \/ CommitCreateAction
    \/ UpdateAction({"accepted", "completed"}, {Unset})

SpecConc == InitOffering /\ [][NextConc]_vars

\* Listing of requests created at several instants, in both directions
\* between users 1 and 2.
NextList ==
    \/ Tick
    \/ CreateAction(Users, SkillIds, SkillIds, {None})
    \/ UpdateAction({"accepted"}, {Unset})
    \/ ListAction({None, "", "accepted"})

SpecList == InitOffering /\ [][NextList]_vars

\* The skill catalog under creation by user 1 with every spelling of a
\* name, and under the moderation of the admin.
NextCatalog ==
    \/ CreateSkillAction({1}, NameInputs, {NoCategory})
    \/ ApproveSkillAction
    \/ RejectSkillAction
    \/ DeleteAnySkillAction

SpecCatalog == Init /\ [][NextCatalog]_vars

\* (user, skill) pairs of the add and remove calls of SpecSkills: a skill of
\* the catalog per user, and for user 1 an id without a row.
SkillCallInputs == OfferInputs \cup {<<1, MaxSkills>>}

AddOfferedAction ==
    \E p \in SkillCallInputs : add_skill_offered(p[1], p[2])

RemoveOfferedAction ==
    \E p \in SkillCallInputs : remove_skill_offered(p[1], p[2])

AddWantedAction ==
    \E p \in SkillCallInputs : add_skill_wanted(p[1], p[2])

RemoveWantedAction ==
    \E p \in SkillCallInputs : remove_skill_wanted(p[1], p[2])

\* Users editing their offered and wanted skills while swap requests are
\* created, accepted and deleted, skill 1 is created again under two
\* spellings, and the admin rejects skills.
NextSkills ==
    \/ AddOfferedAction
    \/ RemoveOfferedAction
    \/ AddWantedAction
    \/ RemoveWantedAction
    \/ CreateSkillAction({1}, {<<"a">>, <<" ", "a">>}, {NoCategory})
    \/ RejectSkillAction
    \/ CreateAction(UserIdInputs, SkillIds, {2}, {None, "hi"})
    \/ UpdateAction({"accepted"}, {Unset})
    \/ DeleteAction

SpecSkills == Init /\ [][NextSkills]_vars

\* Updates of status and message while the database clock advances.
NextTimes ==
    \/ Tick
    \/ CreateAction(Users, {1}, {2}, {None})
    \/ UpdateAction({"accepted", "completed"}, {Unset, "hi"})
    \/ DeleteAction

SpecTimes == InitOffering /\ [][NextTimes]_vars

\* Spellings of the name of skill 1, a longer name in two spellings and a
\* name that is a LIKE pattern.
NameSamples == {<<"a">>, <<" ", "a">>, <<"a", "b">>, <<"A", "B">>, <<"%">>}

\* Categories sent with a new skill: none, the empty one and one to normalize.
CategoryInputs == {NoCategory, << >>, <<" ", "b">>}

\* The skill catalog under a few names and categories, and under the
\* moderation of the admin.
NextNames ==
    \/ CreateSkillAction({1}, NameSamples, CategoryInputs)
    \/ ApproveSkillAction
    \/ RejectSkillAction
    \/ DeleteAnySkillAction

SpecNames == Init /\ [][NextNames]_vars

\* Names sent to handlers that run at the same time: spellings of one name,
\* one of them padded, and a different name.
ConcurrentNames == {<<"a">>, <<"A">>, <<" ", "a">>, <<"b">>}

\* Skill creates served by handlers that run at the same time, next to
\* creates served alone and the moderation of the admin.
NextNamesConc ==
    \/ BeginCreateSkillAction(ConcurrentNames)
    \/ CommitCreateSkillAction
    \/ CreateSkillAction({1}, ConcurrentNames, {NoCategory})
    \/ RejectSkillAction
    \/ DeleteAnySkillAction

SpecNamesConc == Init /\ [][NextNamesConc]_vars

\* Updates and deletes of a request served by handlers that run at the same
\* time, after creates and accepts served alone.
NextRace ==
    \/ CreateAction(Users, {1}, {2}, {None})
    \/ UpdateAction({"accepted"}, {Unset})
    \/ BeginUpdateAction({"accepted", "rejected", "completed"})
    \/ CommitUpdateAction
    \/ BeginDeleteAction
    \/ CommitDeleteAction

SpecRace == InitOffering /\ [][NextRace]_vars

\* Creates served by handlers that run at the same time as the admin bans
\* and unbans users.
NextBan ==
    \/ BeginCreateAction
    \/ CommitCreateAction
    \/ BanAction
    \/ UnbanAction

SpecBan == InitOffering /\ [][NextBan]_vars

\* Requests that are created, leave pending or are deleted, and are
\* created again.
NextAgain ==
    \/ CreateAction(Users, {1}, {2}, {None})
    \/ UpdateAction({"accepted", "cancelled"}, {Unset})
    \/ DeleteAction

SpecAgain == InitOffering /\ [][NextAgain]_vars

\* Offered skills added by handlers that run at the same time, next to adds
\* and removes served alone.
NextAdd ==
    \/ BeginAddOfferedAction
    \/ CommitAddOfferedAction
    \/ AddSkillAction
    \/ RemoveSkillAction

SpecAdd == Init /\ [][NextAdd]_vars

\* Requests read one by one while they are created, accepted and deleted.
NextRead ==
    \/ CreateAction(Users, {1}, {2}, {None})
    \/ UpdateAction({"accepted"}, {Unset})
    \/ DeleteAction
    \/ GetAction

SpecRead == InitOffering /\ [][NextRead]_vars

\* Users who hide and show their profile and edit their offered and wanted
\* skills, while other users read them, search and ask them for swaps.
NextPrivate ==
    \/ UpdateMeAction
    \/ AddSkillAction
    \/ RemoveSkillAction
    \/ AddWantedAction
    \/ RemoveWantedAction
    \/ SearchAction
    \/ GetUserAction
    \/ GetOfferedAction
    \/ GetWantedAction
    \/ CreateAction(Users, {1}, {2}, {None})

SpecPrivate == Init /\ [][NextPrivate]_vars

\* ------------------------------------------------------------ claims: vocabulary

\* The four statuses the specification calls terminal.
TerminalStatuses == {"accepted", "rejected", "completed", "cancelled"}

\* Rows j and k carry the same (requester, requested, skillOffered, skillWanted).
SameTuple(j, k) ==
    /\ requests[j].requester_id = requests[k].requester_id
    /\ requests[j].requested_id = requests[k].requested_id
    /\ requests[j].skill_offered_id = requests[k].skill_offered_id
    /\ requests[j].skill_wanted_id = requests[k].skill_wanted_id

\* The step just taken served an update of a row that was stored before it.
UpdateServed == last'.op = "update" /\ last'.rid \in DOMAIN requests

\* The step just taken served a delete of a row that was stored before it.
DeleteServed == last'.op = "delete" /\ last'.rid \in DOMAIN requests

\* The actor the specification's table authorizes for a target status.
Authorized(actor, r, status) ==
    CASE status \in {"accepted", "rejected"} -> actor = r.requested_id
      [] status = "cancelled" -> actor = r.requester_id
      [] status = "completed" -> actor \in {r.requester_id, r.requested_id}
      [] OTHER -> FALSE

\* ------------------------------------------------------------ C1

\* C1: in every reachable state, for every tuple (requester, requested,
\* skillOffered, skillWanted) at most one stored request with that tuple
\* has status pending.
C1_AtMostOnePendingPerTuple ==
    \A j, k \in DOMAIN requests :
        (j # k /\ SameTuple(j, k)) =>
            ~(requests[j].status = "pending" /\ requests[k].status = "pending")

\* ------------------------------------------------------------ C3

\* C3: an update with target accepted or rejected succeeds only for the
\* requested party, with target cancelled only for the requester, with
\* target completed only for either party; any other actor gets 403
\* Forbidden and the stored requests (status and message) stay as they were.
C3_ActorGatedTransitions ==
    [][(UpdateServed /\ last'.status \in TerminalStatuses) =>
          LET r == requests[last'.rid] IN
          IF Authorized(last'.actor, r, last'.status)
          THEN TRUE
          ELSE /\ last'.resp.code = HTTP_403_FORBIDDEN
               /\ requests' = requests]_vars

\* A stored pending request has just been refused to an actor the table
\* does not authorize: the requester tried to accept it.
C3_Witness ==
    /\ last.op = "update"
    /\ last.status = "accepted"
    /\ last.resp.code = HTTP_403_FORBIDDEN
    /\ last.rid \in DOMAIN requests
    /\ requests[last.rid].requester_id = last.actor
    /\ requests[last.rid].status = "pending"

\* ------------------------------------------------------------ C4

\* C4: an update issued by a user who is neither the requester nor the
\* requested party of the request never succeeds and never changes the
\* request, whatever status value it sends.
C4_OutsiderNeverUpdates ==
    [][(UpdateServed /\
        last'.actor \notin {requests[last'.rid].requester_id,
                            requests[last'.rid].requested_id}) =>
          /\ last'.resp # Ok
          /\ requests' = requests]_vars

\* ------------------------------------------------------------ C6

\* C6: delete of a stored request succeeds, removing exactly that request,
\* iff the actor is the requester and the status is pending; another actor
\* gets 403 Forbidden whatever the status, the requester of a non-pending
\* request gets 400, and in both failures the store is unchanged.
C6_DeletionGating ==
    [][DeleteServed =>
          LET r == requests[last'.rid] IN
          IF last'.actor = r.requester_id /\ r.status = "pending"
          THEN /\ last'.resp = Ok
               /\ DOMAIN requests' = DOMAIN requests \ {last'.rid}
               /\ \A k \in DOMAIN requests' : requests'[k] = requests[k]
          ELSE /\ last'.resp # Ok
               /\ requests' = requests
               /\ (last'.actor # r.requester_id => last'.resp.code = HTTP_403_FORBIDDEN)
               /\ (last'.actor = r.requester_id => last'.resp.code = HTTP_400_BAD_REQUEST)]_vars

\* The requester has just been refused the deletion of a request that is
\* no longer pending, and the request is still stored.
C6_Witness ==
    /\ last.op = "delete"
    /\ last.resp.code = HTTP_400_BAD_REQUEST
    /\ last.rid \in DOMAIN requests
    /\ requests[last.rid].requester_id = last.actor
    /\ requests[last.rid].status \in TerminalStatuses

\* ------------------------------------------------------------ C10

\* C10: once a request's status is accepted, rejected, completed or
\* cancelled, no later operation changes it.
C10_TerminalStatusesStay ==
    [][\A k \in DOMAIN requests :
          requests[k].status \in TerminalStatuses =>
              /\ k \in DOMAIN requests'
              /\ requests'[k].status = requests[k].status]_vars

\* ------------------------------------------------------------ claims: creation

\* The step just taken served a create call.
CreateServed == last'.op = "create"

\* The requested user resolves to a row and is active.
RequestedUsable(b) == b \in Users /\ is_active[b]

\* Stored pending rows with the tuple (a, b, so, sw).
PendingWith(a, b, so, sw) ==
    {k \in DOMAIN requests :
        /\ requests[k].status = "pending"
        /\ <<requests[k].requester_id, requests[k].requested_id,
             requests[k].skill_offered_id, requests[k].skill_wanted_id>> = <<a, b, so, sw>>}

\* The i-th check of the specification's validation sequence fails.
FailsCheck(i, a, b, so, sw) ==
    CASE i = 1 -> ~RequestedUsable(b)
      [] i = 2 -> b = a
      [] i = 3 -> so \notin skills \/ sw \notin skills
      [] i = 4 -> ~BagIn(so, offered[a])
      [] i = 5 -> b \in Users /\ ~BagIn(sw, offered[b])
      [] i = 6 -> PendingWith(a, b, so, sw) # {}

\* The first failing check of the sequence, 0 when every check passes.
FirstFailing(a, b, so, sw) ==
    LET failing == {i \in 1..6 : FailsCheck(i, a, b, so, sw)} IN
    IF failing = {} THEN 0 ELSE CHOOSE i \in failing : \A j \in failing : i <= j

\* The message each check raises.
CheckDetail ==
    <<"Requested user not found or inactive",
      "Cannot request a swap with yourself",
      "One or both skills not found",
      "You don't offer the skill you're proposing to teach",
      "The requested user doesn't offer the skill you want to learn",
      "A pending request for this skill swap already exists">>

\* The status each check answers with according to the specification:
\* NotFound 404, InvalidOperation 400, Conflict 409.
ClaimedCode ==
    <<HTTP_404_NOT_FOUND, HTTP_400_BAD_REQUEST, HTTP_404_NOT_FOUND,
      HTTP_400_BAD_REQUEST, HTTP_400_BAD_REQUEST, 409>>

\* The status each check answers with: the duplicate check answers 400 too.
AmendedCode ==
    <<HTTP_404_NOT_FOUND, HTTP_400_BAD_REQUEST, HTTP_404_NOT_FOUND,
      HTTP_400_BAD_REQUEST, HTTP_400_BAD_REQUEST, HTTP_400_BAD_REQUEST>>

\* The step stored exactly one new row, the pending request of the call.
StoredNew ==
    /\ last'.rid \notin DOMAIN requests
    /\ DOMAIN requests' = DOMAIN requests \cup {last'.rid}
    /\ \A k \in DOMAIN requests : requests'[k] = requests[k]
    /\ requests'[last'.rid].status = "pending"
    /\ <<requests'[last'.rid].requester_id, requests'[last'.rid].requested_id,
         requests'[last'.rid].skill_offered_id, requests'[last'.rid].skill_wanted_id>>
         = <<last'.actor, last'.requested, last'.so, last'.sw>>

\* ------------------------------------------------------------ C5

\* C5: when the requested user exists, is active and is not the requester,
\* both skills exist and no pending request with the tuple is stored, create
\* succeeds iff the requester offers skillOffered and the requested user
\* offers skillWanted; otherwise it fails with 400 and stores nothing.
C5_SkillOwnershipGating ==
    [][(/\ CreateServed
        /\ RequestedUsable(last'.requested)
        /\ last'.requested # last'.actor
        /\ last'.so \in skills
        /\ last'.sw \in skills
        /\ PendingWith(last'.actor, last'.requested, last'.so, last'.sw) = {}) =>
          IF BagIn(last'.so, offered[last'.actor]) /\ BagIn(last'.sw, offered[last'.requested])
          THEN last'.resp = Ok /\ StoredNew
          ELSE last'.resp.code = HTTP_400_BAD_REQUEST /\ requests' = requests]_vars

\* A create has just been refused because the requested user does not offer
\* the wanted skill, although the requester offers the skill proposed.
C5_Witness ==
    /\ last.op = "create"
    /\ last.resp.code = HTTP_400_BAD_REQUEST
    /\ RequestedUsable(last.requested)
    /\ last.requested # last.actor
    /\ BagIn(last.so, offered[last.actor])
    /\ last.sw \in skills
    /\ ~BagIn(last.sw, offered[last.requested])

\* ------------------------------------------------------------ C7

\* C7: a create whose requested id is the requester's own id fails with 400
\* and stores nothing, whatever skill ids it names.
C7_SelfSwapRejected ==
    [][(CreateServed /\ last'.requested = last'.actor) =>
          /\ last'.resp.code = HTTP_400_BAD_REQUEST
          /\ requests' = requests]_vars

\* A self-swap naming a skill that is not in the catalog has been refused.
C7_Witness ==
    /\ last.op = "create"
    /\ last.requested = last.actor
    /\ last.so \notin skills
    /\ last.resp.code = HTTP_400_BAD_REQUEST

\* ------------------------------------------------------------ C8

\* Every check before the duplicate check passes for the call just served.
EarlierChecksPass ==
    \A i \in 1..5 : ~FailsCheck(i, last'.actor, last'.requested, last'.so, last'.sw)

\* C8 as stated: a create repeated while the first request is pending fails
\* with the Conflict kind, a kind other than the 400 of the self-swap and
\* ownership failures, and stores nothing.
C8_DuplicateIsConflict ==
    [][(/\ CreateServed
        /\ PendingWith(last'.actor, last'.requested, last'.so, last'.sw) # {}
        /\ EarlierChecksPass) =>
          /\ last'.resp # Ok
          /\ last'.resp.code # HTTP_400_BAD_REQUEST
          /\ requests' = requests]_vars

\* C8 amended: a create repeated while the first request is pending never
\* succeeds and stores nothing; when the earlier checks still pass it fails
\* with 400 Bad Request, the status of the self-swap and ownership failures,
\* told apart from them by its detail message only.
C8_DuplicateRejected ==
    [][(/\ CreateServed
        /\ PendingWith(last'.actor, last'.requested, last'.so, last'.sw) # {}) =>
          /\ last'.resp # Ok
          /\ requests' = requests
          /\ (EarlierChecksPass =>
                last'.resp = HTTPException(HTTP_400_BAD_REQUEST, CheckDetail[6]))]_vars

\* A repeated create has just been refused while the first is still pending.
C8_Witness ==
    /\ last.op = "create"
    /\ last.resp.detail = CheckDetail[6]
    /\ Cardinality(PendingWith(last.actor, last.requested, last.so, last.sw)) = 1

\* ------------------------------------------------------------ C9

\* C9 as stated: a failing create returns the error of the first failing
\* check in the order user (404), self (400), skills (404), requester's
\* skill (400), requested user's skill (400), duplicate (Conflict).
C9_FirstFailingCheckClaimed ==
    [][CreateServed =>
          LET f == FirstFailing(last'.actor, last'.requested, last'.so, last'.sw) IN
          IF f = 0 THEN last'.resp = Ok
          ELSE /\ last'.resp = HTTPException(ClaimedCode[f], CheckDetail[f])
               /\ requests' = requests]_vars

\* C9 amended: the same order, the duplicate check answering 400 Bad
\* Request like checks 2, 4 and 5.
C9_FirstFailingCheck ==
    [][CreateServed =>
          LET f == FirstFailing(last'.actor, last'.requested, last'.so, last'.sw) IN
          IF f = 0 THEN last'.resp = Ok
          ELSE /\ last'.resp = HTTPException(AmendedCode[f], CheckDetail[f])
               /\ requests' = requests]_vars

\* A create has just failed on the first check while the skills check and
\* the duplicate check fail too.
C9_Witness ==
    /\ last.op = "create"
    /\ last.resp.detail = CheckDetail[1]
    /\ FailsCheck(1, last.actor, last.requested, last.so, last.sw)
    /\ FailsCheck(3, last.actor, last.requested, last.so, last.sw)
    /\ FailsCheck(6, last.actor, last.requested, last.so, last.sw)

\* ------------------------------------------------------------ C2

\* Handlers s and t created the same tuple and each read the store while
\* the other had read it and not yet committed.
RanConcurrently(s, t) ==
    /\ s # t
    /\ sess[s].pc = "done" /\ sess[t].pc = "done"
    /\ sess[s].overlapped /\ sess[t].overlapped
    /\ <<sess[s].actor, sess[s].requested, sess[s].so, sess[s].sw>>
         = <<sess[t].actor, sess[t].requested, sess[t].so, sess[t].sw>>

\* C2: of two creates with the same tuple that run concurrently exactly one
\* succeeds, the other fails on the duplicate check, and one pending request
\* with the tuple is stored.
C2_ConcurrentCreateOneWins ==
    \A s, t \in Sessions :
        RanConcurrently(s, t) =>
            /\ (sess[s].resp = Ok) # (sess[t].resp = Ok)
            /\ Cardinality(PendingWith(sess[s].actor, sess[s].requested,
                                       sess[s].so, sess[s].sw)) <= 1

\* ------------------------------------------------------------ C11

\* C11: an update with target status accepted succeeds only when the
\* request's current status is pending; on a request in any other status it
\* is refused and the status does not become accepted.
C11_AcceptOnlyFromPending ==
    [][(/\ UpdateServed
        /\ last'.status = "accepted"
        /\ requests[last'.rid].status # "pending")
       => /\ last'.resp # Ok
          /\ requests'[last'.rid].status = requests[last'.rid].status]_vars

\* ------------------------------------------------------------ C12

\* The five statuses of a swap request.
Statuses == {"pending", "accepted", "rejected", "completed", "cancelled"}

\* C12: in every reachable state the status of every stored swap request is
\* one of pending, accepted, rejected, completed, cancelled.
C12_StatusInDomain ==
    \A k \in DOMAIN requests : requests[k].status \in Statuses

\* ------------------------------------------------------------ C13

\* User a offers so, the active user b, another user, offers sw, and no
\* pending request (a, b, so, sw) is stored.
JourneyStart(a, b, so, sw) ==
    /\ BagIn(so, offered[a])
    /\ RequestedUsable(b)
    /\ b # a
    /\ BagIn(sw, offered[b])
    /\ PendingWith(a, b, so, sw) = {}

\* C13: from a state where A offers s1, the active user B offers s2 and no
\* pending request (A, B, s1, s2) exists, createRequest(A, B, s1, s2)
\* succeeds and stores the request as pending; on that pending request the
\* update to accepted by B succeeds and leaves it accepted; on that accepted
\* request the update to completed by A or by B succeeds and leaves it
\* completed.  Each step ends in the state the next one starts from.
C13_RequestJourney ==
    [][/\ (CreateServed /\ JourneyStart(last'.actor, last'.requested, last'.so, last'.sw))
            => /\ last'.resp = Ok
               /\ StoredNew
       /\ (/\ UpdateServed
           /\ last'.status = "accepted"
           /\ last'.actor = requests[last'.rid].requested_id
           /\ requests[last'.rid].status = "pending")
            => /\ last'.resp = Ok
               /\ requests'[last'.rid].status = "accepted"
       /\ (/\ UpdateServed
           /\ last'.status = "completed"
           /\ last'.actor \in {requests[last'.rid].requester_id, requests[last'.rid].requested_id}
           /\ requests[last'.rid].status = "accepted")
            => /\ last'.resp = Ok
               /\ requests'[last'.rid].status = "completed"]_vars

\* The requested user has just marked a request completed, and it is stored
\* as completed.
C13_Witness ==
    /\ last.op = "update"
    /\ last.status = "completed"
    /\ last.resp = Ok
    /\ last.rid \in DOMAIN requests
    /\ last.actor = requests[last.rid].requested_id
    /\ requests[last.rid].status = "completed"

\* ------------------------------------------------------------ C15

\* The fields of a swap request that are fixed at creation.
Identity(r) == <<r.requester_id, r.requested_id, r.skill_offered_id, r.skill_wanted_id>>

\* C15: a swap request keeps its id, requester, requested party, offered
\* skill and wanted skill in every step from its creation to its deletion:
\* a row stored under an id before and after a step has the same four
\* fields, whatever the step was.
C15_IdentityImmutable ==
    [][\A k \in DOMAIN requests \cap DOMAIN requests' :
          Identity(requests'[k]) = Identity(requests[k])]_vars

\* An update has just changed the status and the message of a request.
C15_Witness ==
    /\ last.op = "update"
    /\ last.resp = Ok
    /\ last.message = "hi"
    /\ last.rid \in DOMAIN requests
    /\ requests[last.rid].status = "accepted"
    /\ requests[last.rid].message = "hi"
    /\ Identity(requests[last.rid]) = <<1, 2, 1, 2>>

\* ------------------------------------------------------------ C16

\* C16: in every reachable state every stored swap request has a requester
\* different from its requested party.
C16_PartiesDistinct ==
    \A k \in DOMAIN requests : requests[k].requester_id # requests[k].requested_id

\* A user who offers both skills of a create has named themself as the
\* requested user and was refused, while a request is stored.
C16_Witness ==
    /\ last.op = "create"
    /\ last.actor = last.requested
    /\ BagIn(last.so, offered[last.actor])
    /\ BagIn(last.sw, offered[last.actor])
    /\ last.resp = HTTPException(HTTP_400_BAD_REQUEST, "Cannot request a swap with yourself")
    /\ requests # << >>

\* ------------------------------------------------------------ C18

\* The step just taken served a listing.
ListServed == last'.op = "list"

\* User u is a party of request k in the direction asked for.
InDirection(u, k, direction) ==
    CASE direction = "sent" -> requests[k].requester_id = u
      [] direction = "received" -> requests[k].requested_id = u
      [] direction = "all" -> u \in {requests[k].requester_id, requests[k].requested_id}

\* A status filter is given: the parameter is present and not empty.
FilterGiven(statusFilter) == statusFilter \notin {None, ""}

\* The ids a listing returned.
Returned == {last'.rows[i] : i \in DOMAIN last'.rows}

\* C18: a listing for user u returns, each once, exactly the stored requests
\* in which u is the requester (sent), the requested party (received) or
\* either (all), restricted to the status of the filter when one is given,
\* with creation times that never increase along the result; whatever the
\* direction, it returns no request in which u is not a party.
C18_ListForUser ==
    [][ListServed =>
         /\ last'.resp = Ok
         /\ requests' = requests
         /\ Len(last'.rows) = Cardinality(Returned)
         /\ last'.type_filter \in {"sent", "received", "all"} =>
              Returned = {k \in DOMAIN requests :
                             /\ InDirection(last'.actor, k, last'.type_filter)
                             /\ FilterGiven(last'.status) => requests[k].status = last'.status}
         /\ \A i, j \in DOMAIN last'.rows :
               i < j => requests[last'.rows[i]].created_at >= requests[last'.rows[j]].created_at
         /\ \A k \in Returned :
               last'.actor \in {requests[k].requester_id, requests[k].requested_id}]_vars

\* User 2 has listed the accepted requests received and got two of them,
\* the one created later first.
C18_Witness ==
    /\ last.op = "list"
    /\ last.actor = 2
    /\ last.type_filter = "received"
    /\ last.status = "accepted"
    /\ Len(last.rows) = 2
    /\ requests[last.rows[1]].created_at > requests[last.rows[2]].created_at

\* ------------------------------------------------------------ C20

\* The step just taken served a skill create.
SkillCreateServed == last'.op = "create_skill"

\* A name with every letter in lower case.
Folded(s) == [i \in DOMAIN s |-> lower(s[i])]

\* The approved skills whose name equals the normalized form of name:
\* trimmed, and compared without regard to letter case.
ApprovedNamed(name) ==
    {i \in skills : catalog[i].is_approved /\ Folded(catalog[i].name) = Folded(strip(name))}

\* C20: a skill create whose name, trimmed and compared case-insensitively,
\* equals the name of an existing approved skill returns that skill and
\* leaves the catalog as it is, whatever the spelling of the name sent.
C20_CreateReturnsExisting ==
    [][(SkillCreateServed /\ ApprovedNamed(last'.name) # {})
       => /\ last'.resp = Ok
          /\ last'.skill_id \in ApprovedNamed(last'.name)
          /\ skills' = skills
          /\ catalog' = catalog]_vars

\* ------------------------------------------------------------ C14

\* C14: a successful create adds exactly one request, pending, with the
\* actor as requester and the requested party, offered skill, wanted skill
\* and message of the call; the requests stored before it and every user's
\* offered and wanted skills stay as they were.
C14_CreateFrame ==
    [][(CreateServed /\ last'.resp = Ok)
       => /\ StoredNew
          /\ requests'[last'.rid].message = last'.message
          /\ offered' = offered
          /\ wanted' = wanted]_vars

\* A create with a message has just succeeded next to an earlier request,
\* while a user has a wanted skill.
C14_Witness ==
    /\ last.op = "create"
    /\ last.resp = Ok
    /\ last.message = "hi"
    /\ DOMAIN requests \ {last.rid} # {}
    /\ \E u \in Users : wanted[u] # EmptyBag

\* ------------------------------------------------------------ C17

\* The operations the claim names.
Operations ==
    {"create", "update", "delete", "add_offered", "remove_offered",
     "add_wanted", "remove_wanted", "create_skill"}

\* C17: a create, update, delete, skill add, skill remove or skill create
\* that returns an error leaves the stored requests, every user's offered
\* and wanted skills, the skills and the users as they were before the call.
C17_ErrorsChangeNothing ==
    [][(last'.op \in Operations /\ last'.resp # Ok)
       => /\ requests' = requests
          /\ offered' = offered
          /\ wanted' = wanted
          /\ skills' = skills
          /\ catalog' = catalog
          /\ is_active' = is_active]_vars

\* The requester's delete of an accepted request has just been refused, and
\* the request is still stored.
C17_Witness ==
    /\ last.op = "delete"
    /\ last.resp = HTTPException(HTTP_400_BAD_REQUEST, "Can only delete pending requests")
    /\ last.rid \in DOMAIN requests
    /\ requests[last.rid].status = "accepted"
    /\ requests[last.rid].requester_id = last.actor

\* ------------------------------------------------------------ C19

\* The step just taken served an add or a remove on the user's offered or
\* wanted skills, naming a skill of the catalog.
SkillCallServed ==
    \/ last'.op \in {"add_offered", "remove_offered"} /\ last'.so \in skills
    \/ last'.op \in {"add_wanted", "remove_wanted"} /\ last'.sw \in skills

\* C19: an add or a remove of a skill of the catalog succeeds; after an add
\* the skill is in the caller's set exactly once, after a remove it is not
\* in it; an add of a skill already in the set and a remove of a skill not
\* in it leave the set as it was.  So a second add, or a second remove,
\* changes nothing.  The other set and the other users' sets are untouched.
C19_AddRemoveIdempotent ==
    [][SkillCallServed =>
         LET onOffered == last'.op \in {"add_offered", "remove_offered"}
             adding == last'.op \in {"add_offered", "add_wanted"}
             skill == IF onOffered THEN last'.so ELSE last'.sw
             before == IF onOffered THEN offered[last'.actor] ELSE wanted[last'.actor]
             after == IF onOffered THEN offered'[last'.actor] ELSE wanted'[last'.actor]
         IN  /\ last'.resp = Ok
             /\ CopiesIn(skill, after) = IF adding THEN 1 ELSE 0
             /\ (BagIn(skill, before) = adding) => after = before
             /\ \A e \in (DOMAIN before \cup DOMAIN after) \ {skill} :
                   CopiesIn(e, after) = CopiesIn(e, before)
             /\ \A u \in Users \ {last'.actor} :
                   offered'[u] = offered[u] /\ wanted'[u] = wanted[u]
             /\ IF onOffered THEN wanted' = wanted ELSE offered' = offered]_vars

\* User 1 has just added a wanted skill and has it once, next to an offered
\* skill.
C19_Witness ==
    /\ last.op = "add_wanted"
    /\ last.resp = Ok
    /\ CopiesIn(last.sw, wanted[last.actor]) = 1
    /\ offered[last.actor] # EmptyBag

\* ------------------------------------------------------------ C24

\* The step just taken served an add or a remove on the user's offered or
\* wanted skills, naming an id that has no row in the catalog.
MissingSkillCallServed ==
    \/ last'.op \in {"add_offered", "remove_offered"} /\ last'.so \notin skills
    \/ last'.op \in {"add_wanted", "remove_wanted"} /\ last'.sw \notin skills

\* C24: an add or a remove of an offered or a wanted skill whose id is not
\* in the catalog fails with 404 Not Found and leaves every user's offered
\* and wanted skills as they were.
C24_MissingSkillNotFound ==
    [][MissingSkillCallServed
       => /\ last'.resp.code = HTTP_404_NOT_FOUND
          /\ offered' = offered
          /\ wanted' = wanted]_vars

\* User 1, who offers a skill and wants a skill, has just been refused the
\* removal of an offered skill that has no row.
C24_Witness ==
    /\ last.op = "remove_offered"
    /\ last.so \notin skills
    /\ last.resp.code = HTTP_404_NOT_FOUND
    /\ offered[last.actor] # EmptyBag
    /\ wanted[last.actor] # EmptyBag

\* ------------------------------------------------------------ C26

\* C26: for the target statuses rejected, cancelled and completed an update
\* by the actor the table authorizes succeeds and stores the target,
\* whatever the current status of the request is.
C26_OnlyActorChecked ==
    [][(/\ UpdateServed
        /\ last'.status \in {"rejected", "cancelled", "completed"}
        /\ Authorized(last'.actor, requests[last'.rid], last'.status))
       => /\ last'.resp = Ok
          /\ requests'[last'.rid].status = last'.status]_vars

\* The requester has just marked as completed the only request stored.
C26_Witness ==
    /\ last.op = "update"
    /\ last.status = "completed"
    /\ last.resp = Ok
    /\ DOMAIN requests = {last.rid}
    /\ requests[last.rid].requester_id = last.actor
    /\ requests[last.rid].status = "completed"

\* ------------------------------------------------------------ C29

\* C29: a successful update that supplies only a status leaves the message
\* of the request as it was; one that supplies a message stores that
\* message; either way every other request stays as it was.
C29_UpdateFrame ==
    [][(UpdateServed /\ last'.resp = Ok)
       => /\ requests'[last'.rid].message =
                IF last'.message = Unset THEN requests[last'.rid].message ELSE last'.message
          /\ DOMAIN requests' = DOMAIN requests
          /\ \A k \in DOMAIN requests \ {last'.rid} : requests'[k] = requests[k]]_vars

\* A status-only update has just succeeded on a request whose message an
\* earlier update had set, next to another request.
C29_Witness ==
    /\ last.op = "update"
    /\ last.resp = Ok
    /\ last.message = Unset
    /\ last.rid \in DOMAIN requests
    /\ requests[last.rid].message = "hi"
    /\ DOMAIN requests \ {last.rid} # {}

\* ------------------------------------------------------------ C30

\* The created timestamp of a stored request never changes, and its
\* last-updated timestamp is never earlier.
CreatedFixed ==
    /\ \A k \in DOMAIN requests \cap DOMAIN requests' :
          requests'[k].created_at = requests[k].created_at
    /\ \A k \in DOMAIN requests' : requests'[k].updated_at >= requests'[k].created_at

\* C30 as stated: every successful update sets the last-updated timestamp of
\* the request to the time of the update, also when the status sent is the
\* current one; the created timestamp never changes and last-updated is
\* never earlier than created.
C30_EveryUpdateStamps ==
    [][/\ (UpdateServed /\ last'.resp = Ok) => requests'[last'.rid].updated_at = now
       /\ CreatedFixed]_vars

\* The update changes the status or the message of the request.
ChangesRow ==
    \/ last'.status # requests[last'.rid].status
    \/ last'.message # Unset /\ last'.message # requests[last'.rid].message

\* C30: a successful update that changes the status or the message sets the
\* last-updated timestamp of the request to the time of the update; one
\* that changes neither leaves the timestamp as it was; the created
\* timestamp never changes and last-updated is never earlier than created.
C30_ChangingUpdateStamps ==
    [][/\ (UpdateServed /\ last'.resp = Ok) =>
             requests'[last'.rid].updated_at =
                IF ChangesRow THEN now ELSE requests[last'.rid].updated_at
       /\ CreatedFixed]_vars

\* An update that sent no message has just succeeded at an instant later
\* than the last-updated timestamp of the request it named.
C30_Witness ==
    /\ last.op = "update"
    /\ last.resp = Ok
    /\ last.message = Unset
    /\ last.rid \in DOMAIN requests
    /\ requests[last.rid].status = last.status
    /\ requests[last.rid].updated_at < now

\* ------------------------------------------------------------ C21

\* The lookup of the skill create just served found rows, none approved.
FoundUnapproved ==
    /\ SkillCreateServed
    /\ ExistingSkills(last'.name) # {}
    /\ \A i \in ExistingSkills(last'.name) : ~catalog[i].is_approved

NoneNamed(name) ==
    \A i \in skills : Folded(catalog[i].name) # Folded(strip(name))

\* C23: a skill create for a name that matches no existing skill succeeds
\* and stores one new skill, approved, whose name is the input trimmed and
\* title-cased and whose category is the input category trimmed and
\* title-cased, or absent when none was sent; the other skills stay.
C23_CreateStoresNormalized ==
    [][(SkillCreateServed /\ NoneNamed(last'.name))
       => /\ last'.resp = Ok
          /\ last'.skill_id \notin skills
          /\ skills' = skills \cup {last'.skill_id}
          /\ \A i \in skills : catalog'[i] = catalog[i]
          /\ catalog'[last'.skill_id] =
                [name |-> title(strip(last'.name)),
                 category |-> IF last'.category \in {NoCategory, << >>}
                              THEN NoCategory
                              ELSE title(strip(last'.category)),
                 is_approved |-> TRUE]]_vars

\* ------------------------------------------------------------ C22

\* C22: in every state reached by creates (served alone or at the same
\* time), rejects and deletes of skills, no two stored skills have names
\* that are equal when compared without regard to case.
C22_NamesUniqueIgnoringCase ==
    \A i, j \in skills : i # j => Folded(catalog[i].name) # Folded(catalog[j].name)

\* Two handlers were sent spellings of one name at the same time and both
\* found no row; one stored the skill, the insert of the other was refused.
C22_Witness ==
    \E s, t \in Sessions :
        /\ s # t
        /\ sess[s].pc = "done" /\ sess[t].pc = "done"
        /\ sess[s].op = "create_skill" /\ sess[t].op = "create_skill"
        /\ sess[s].name # sess[t].name
        /\ Folded(strip(sess[s].name)) = Folded(strip(sess[t].name))
        /\ sess[s].skill_id \in skills
        /\ catalog[sess[s].skill_id].name = title(strip(sess[s].name))
        /\ sess[t].resp = InternalServerError

\* ------------------------------------------------------------ C27

\* C27: however a delete is interleaved with updates of the same request
\* served at the same time, a request is removed only while its stored
\* status is pending.
C27_DeleteOnlyPending ==
    [][\A k \in DOMAIN requests \ DOMAIN requests' : requests[k].status = "pending"]_vars

\* ------------------------------------------------------------ C28

\* Handler s commits an update that succeeds, after handler t, which ran at
\* the same time on the same request with another target status, has
\* committed an update that succeeded.
CommitsLast(s, t) ==
    /\ sess[s].pc = "update_loaded"
    /\ sess'[s].pc = "done"
    /\ sess'[s].resp = Ok
    /\ t \in sess[s].concurrent
    /\ sess[t].pc = "done"
    /\ sess[t].op = "update"
    /\ sess[t].resp = Ok
    /\ sess[t].status # sess[s].status

\* C28: when two authorized updates with different target statuses run at
\* the same time on one request and both succeed, the status stored after
\* both have committed is the target of the one that committed last.
C28_LastCommitWins ==
    [][\A s, t \in Sessions :
          CommitsLast(s, t) => requests'[sess[s].rid].status = sess[s].status]_vars

\* ------------------------------------------------------------ C31

\* C31: removing a skill from the caller's offered skills and deleting a
\* skill from the catalog both leave every stored swap request as it was:
\* the requests stored, their status, parties and skills, pending requests
\* that name the skill included.
C31_SkillRemovalKeepsRequests ==
    [][last'.op \in {"remove_offered", "delete_skill"} => requests' = requests]_vars

\* Two pending requests are stored.  The requester of one no longer offers
\* the skill it offers, which is still in the catalog; the skill the other
\* offers has just been deleted from the catalog.
C31_Witness ==
    /\ last.op = "delete_skill"
    /\ last.resp = Ok
    /\ last.so \notin skills
    /\ \E j, k \in DOMAIN requests :
          /\ j # k
          /\ requests[j].status = "pending"
          /\ requests[j].skill_offered_id = last.so
          /\ requests[k].status = "pending"
          /\ requests[k].skill_offered_id \in skills
          /\ ~BagIn(requests[k].skill_offered_id, offered[requests[k].requester_id])

\* ------------------------------------------------------------ C32

\* Handler s stores the request of its create in this step.
CommitsCreate(s) == sess[s].pc = "checked" /\ sess'[s].pc = "done"

\* Handler s runs the checks of its create in this step.
ChecksCreate(s) == sess[s].pc = "idle" /\ sess'[s].pc # "idle"

\* The admin router serves a ban or an unban in this step.
BanServed == last'.op \in {"ban", "unban"} /\ sess' = sess

\* C32: while a user is banned no create that names them as the requested
\* party succeeds, however the checks and the commit of the create are
\* interleaved with bans; such a create is refused as not found; and a ban
\* or an unban leaves every stored request as it was.
C32_NoCreateForBanned ==
    [][/\ \A s \in Sessions :
             CommitsCreate(s) => is_active[sess[s].requested]
       /\ \A s \in Sessions :
             (ChecksCreate(s) /\ ~is_active[sess'[s].requested]) =>
                 sess'[s].resp.code = HTTP_404_NOT_FOUND
       /\ BanServed => requests' = requests]_vars

\* ------------------------------------------------------------ C33

\* The step just taken took stored request k out of the pending requests:
\* an update gave it another status, or a delete removed it.
LeavesPending(k) ==
    /\ requests[k].status = "pending"
    /\ \/ (UpdateServed /\ last'.rid = k /\ last'.resp = Ok /\ requests'[k].status # "pending")
       \/ (DeleteServed /\ last'.rid = k /\ last'.resp = Ok /\ k \notin DOMAIN requests')

\* The duplicate check of a create with the tuple of r passes in the state
\* after the step.
TupleFree(r) ==
    \A j \in DOMAIN requests' :
        (/\ requests'[j].requester_id = r.requester_id
         /\ requests'[j].requested_id = r.requested_id
         /\ requests'[j].skill_offered_id = r.skill_offered_id
         /\ requests'[j].skill_wanted_id = r.skill_wanted_id) =>
            requests'[j].status # "pending"

SecondAppend(s, t) ==
    /\ sess[s].pc = "membership_checked"
    /\ sess'[s].pc = "done"
    /\ t \in sess[s].concurrent
    /\ sess[t].pc = "done"

\* C34: however two adds of one skill to the offered skills of one user
\* are interleaved, the stored offered skills of the user afterwards hold
\* the skill exactly once.
C34_ConcurrentAddOnce ==
    [][\A s, t \in Sessions :
          SecondAppend(s, t) =>
              CopiesIn(sess[s].skill_id, offered'[sess[s].actor]) = 1]_vars

\* ------------------------------------------------------------ C35

\* The step just taken served the read of one request by its id.
GetServed == last'.op = "get"

\* C35: the read of one request by its id succeeds, returning that request,
\* only for its requester and its requested party; any other user gets 403
\* Forbidden, an id that is not stored gets 404 Not Found, and the read
\* changes nothing that is stored.
C35_ReadOnlyForParties ==
    [][GetServed =>
          /\ IF last'.rid \notin DOMAIN requests
             THEN last'.resp.code = HTTP_404_NOT_FOUND
             ELSE IF last'.actor \in {requests[last'.rid].requester_id,
                                      requests[last'.rid].requested_id}
             THEN last'.resp = Ok /\ last'.rows = <<last'.rid>>
             ELSE last'.resp.code = HTTP_403_FORBIDDEN
          /\ UNCHANGED <<is_public, is_active, skills, catalog, offered, wanted,
                         requests, now, sess>>]_vars

\* A user who is no party to a stored request has just been refused its read.
C35_Witness ==
    /\ last.op = "get"
    /\ last.resp.code = HTTP_403_FORBIDDEN
    /\ last.rid \in DOMAIN requests
    /\ last.actor \notin {requests[last.rid].requester_id, requests[last.rid].requested_id}

\* ------------------------------------------------------------ C37

\* C37: a ban of a user who is an admin is refused and leaves the active
\* flag of that user as it was; a ban of another stored user makes that
\* user inactive; an unban makes the user active, so that a ban followed by
\* an unban gives the user the active state back; the flags of the other
\* users stay as they were.
C37_BanAndUnban ==
    [][BanServed =>
          LET u == last'.requested IN
          IF last'.op = "ban" /\ u \in Admins
          THEN /\ last'.resp.code = HTTP_400_BAD_REQUEST
               /\ is_active' = is_active
          ELSE /\ last'.resp = Ok
               /\ is_active' = [is_active EXCEPT ![u] = (last'.op = "unban")]]_vars

\* The ban of the admin has just been refused, the admin is active, and a
\* user banned before is inactive.
C37_Witness ==
    /\ last.op = "ban"
    /\ last.requested \in Admins
    /\ last.resp.code = HTTP_400_BAD_REQUEST
    /\ is_active[last.requested]
    /\ \E u \in Users : ~is_active[u]

\* ------------------------------------------------------------ C36

\* The step just taken changed the offered or the wanted skills of a user
\* whose profile is private, and nothing else that is stored.
PrivateSkillsEdited ==
    /\ last'.op \in {"add_offered", "remove_offered", "add_wanted", "remove_wanted"}
    /\ ~is_public[last'.actor]

\* C36: in two states that differ only in the offered or wanted skills of
\* a user whose profile is private, every operation of another user has the
\* same result, success or the same kind of error: the reads of the profile
\* and of the skill lists, the search, and the creation of a swap request.
C36_PrivateSkillsHidden ==
    [][PrivateSkillsEdited =>
          \A a \in Users \ {last'.actor} :
              /\ \A u \in UserIdInputs :
                    ProfileCheck(a, u).code = (ProfileCheck(a, u).code)'
              /\ \A skill \in {NoSkillFilter, <<"a">>} :
                    SearchResult(a, skill) = SearchResult(a, skill)'
              /\ \A b \in UserIdInputs, so \in SkillIds, sw \in SkillIds :
                    CreateCheck(a, b, so, sw).code = (CreateCheck(a, b, so, sw).code)']_vars

====
